---- MODULE Spec2Model ----
(***************************************************************************)
(* A model of the AIMMS weather QC readers (utils/read_weather_data_files), *)
(* of the smoothing-window computation, the statistics and the warnings of *)
(* weather_qc.py and utils/solar_stats.py, of the comparison with the      *)
(* mission times at the end of check_weather_data, of a whole run of       *)
(* check_weather_data on a probe file, and of the extraction of a raw file *)
(* by the vendor executable (utils/extract_aimms).                         *)
(*                                                                         *)
(* Text is a sequence of symbols.  A symbol is a string: a whitespace      *)
(* character (" " or "\t"), a punctuation character ("," or ".") or an     *)
(* indivisible word ("AoS", "23.9995", ...).  Substring tests, strip and   *)
(* the whitespace substitution work on symbols exactly as the code works   *)
(* on characters.                                                          *)
(*                                                                         *)
(* Decimal hours are held in milliseconds (1 h = 3600000), so that the     *)
(* arithmetic of decimal_hours_to_hh_mm_ss is exact.                       *)
(***************************************************************************)
EXTENDS Integers, Sequences, FiniteSets, TLC

VARIABLES
    aimms_file,   \* the probe file: a sequence of lines, each a sequence of symbols
    hdr,          \* how the input file was put together (never read by the code)
    given,        \* the format argument as the caller passed it ("None" when left out)
    format,       \* the local format of aimms_to_df
    aimms_df,     \* the dataframe of aimms_to_df: a sequence of records
    apc,          \* position in aimms_to_df
    aerr,         \* the exception that ended aimms_to_df ("" when none)
    time_in,      \* a decimal hour handed to decimal_hours_to_hh_mm_ss (milliseconds)
    time_out,     \* the string returned for time_in, as its fields
    time_out24,   \* the string returned for time_in + 24
    tpc,          \* position of the conversion
    solar_in,     \* how the solar file was put together (never read by the code)
    solar_file,   \* the solar file: its first line (symbols) and its data rows
    units,        \* the unit token solar_to_df found
    raw_solar_df, \* the dataframe of solar_to_df: a sequence of records
    stdout,       \* what solar_to_df printed
    spc,          \* position in solar_to_df
    serr,         \* the exception that ended solar_to_df ("" when none)
    pipeline,     \* "weather" (check_weather_data) or "solar" (solar_to_stats)
    times,        \* the Time / LocalTime column the sample rate is taken from (ms)
    smoothing,    \* the configured smoothing periods, in seconds
    sample_rate,  \* the median of the differences of times
    windows,      \* the rolling windows computed from the periods, in samples
    wpc,          \* position in the window computation
    werr,         \* the exception that ended it ("" when none)
    stats_in,     \* how the probe series was put together (never read by the code)
    raw_weather_df, \* the frame check_weather_data hands to weather_to_stats (aimms_df there)
    ws_windows,   \* the four smoothing windows weather_to_stats is called with
    console,      \* the warnings weather_to_stats printed
    weather_stats, \* the report file: <<>> while absent, else <<the warnings written>>
    stpc,         \* position in weather_to_stats
    sterr,        \* the exception that ended it ("" when none)
    sstats_in,    \* how the solar series was put together (never read by the code)
    solar_df,     \* raw_solar_df of solar_to_stats, as solar_to_df returned it
    ss_args,      \* utc_offset, start_time, end_time and smoothing of solar_to_stats
    ss,           \* the locals of solar_to_stats
    ss_console,   \* the warnings solar_to_stats printed
    output_stats, \* the solar report file: <<>> while absent, else <<the warnings>>
    sspc,         \* position in solar_to_stats
    sserr,        \* the exception that ended it ("" when none)
    mission_in,   \* the days flown and the solar options of a check_weather_data run
    mission_csv,  \* the mission file argument: "None", "", a path that is no file, a file
    lidar,        \* the survey start and end the mission file holds
    probe,        \* utc_start_time and utc_end_time as weather_to_stats returned them
    solar,        \* the solar file argument ("None" when left out)
    mpc,          \* position in check_weather_data
    merr,         \* the exception that ended it ("" when none)
    timing,       \* duration, length and first and last time of weather_to_stats
    e2e_in,       \* the probe file and smoothing periods of a whole run
    cpc,          \* position of that run in check_weather_data
    cerr,         \* the exception that ended it ("" when none)
    ex_in,        \* the arguments of each extract_aimms call and what the vendor
                  \* executable makes of its raw file
    exe_dir,      \* the files of the executable directory, by name
    out_files,    \* the extracted files of the output directories, by path
    runs          \* position, exception and result of each extract_aimms call

aimms_vars == <<aimms_file, hdr, given, format, aimms_df, apc, aerr>>
time_vars == <<time_in, time_out, time_out24, tpc>>

solar_vars == <<solar_in, solar_file, units, raw_solar_df, stdout, spc, serr>>
window_vars == <<pipeline, times, smoothing, sample_rate, windows, wpc, werr>>

stats_vars ==
    <<stats_in, raw_weather_df, ws_windows, console, weather_stats, stpc, sterr, timing>>

\* the statistics and reporting half of the program
sstats_vars == <<sstats_in, solar_df, ss_args, ss, ss_console, output_stats, sspc, sserr>>
mission_vars == <<mission_in, mission_csv, lidar, probe, solar, mpc, merr>>
report_vars == <<stats_vars, sstats_vars, mission_vars>>

\* a whole run of check_weather_data, and the extraction it starts with
e2e_vars == <<e2e_in, cpc, cerr>>
extract_vars == <<ex_in, exe_dir, out_files, runs>>
flow_vars == <<e2e_vars, extract_vars>>

vars == <<aimms_vars, time_vars, solar_vars, window_vars, report_vars, flow_vars>>

(***************************************************************************)
(* Bounds of the enumerated inputs.                                        *)
(***************************************************************************)
MaxRows == 4        \* data rows of an enumerated probe file
MaxWrap == 1        \* whole days added to an enumerated decimal hour
MaxSolarRows == 3   \* data rows of an enumerated solar file
MaxDiffs == 3       \* differences between the samples of an enumerated time column

NoText == [hh |-> 0, mm |-> 0, ss |-> 0]
AimmsIdle ==
    /\ aimms_file = <<>> /\ hdr = <<>> /\ given = "None" /\ format = "None"
    /\ aimms_df = <<>> /\ apc = "idle" /\ aerr = ""
TimeIdle == time_in = 0 /\ time_out = NoText /\ time_out24 = NoText /\ tpc = "idle"
SolarIdle ==
    /\ solar_in = <<>> /\ solar_file = <<>> /\ units = <<>> /\ raw_solar_df = <<>>
    /\ stdout = <<>> /\ spc = "idle" /\ serr = ""
NoRate == [nat |-> TRUE, ms2 |-> 0]
WindowIdle ==
    /\ pipeline = "none" /\ times = <<>> /\ smoothing = <<>> /\ sample_rate = NoRate
    /\ windows = <<>> /\ wpc = "idle" /\ werr = ""
StatsIdle ==
    /\ stats_in = <<>> /\ raw_weather_df = <<>> /\ ws_windows = <<>> /\ console = {}
    /\ weather_stats = <<>> /\ stpc = "idle" /\ sterr = "" /\ timing = <<>>
SolarStatsIdle ==
    /\ sstats_in = <<>> /\ solar_df = <<>> /\ ss_args = <<>> /\ ss = <<>>
    /\ ss_console = {} /\ output_stats = <<>> /\ sspc = "idle" /\ sserr = ""
MissionIdle ==
    /\ mission_in = <<>> /\ mission_csv = "None" /\ lidar = <<>> /\ probe = <<>>
    /\ solar = "None" /\ mpc = "idle" /\ merr = ""
ReportIdle == StatsIdle /\ SolarStatsIdle /\ MissionIdle
EndToEndIdle == e2e_in = <<>> /\ cpc = "idle" /\ cerr = ""
ExtractIdle == ex_in = <<>> /\ exe_dir = <<>> /\ out_files = <<>> /\ runs = <<>>
FlowIdle == EndToEndIdle /\ ExtractIdle

(***************************************************************************)
(* Text helpers.                                                           *)
(***************************************************************************)
IsSpace(c) == c \in {" ", "\t"}

RECURSIVE LStrip(_)
LStrip(s) == IF s # <<>> /\ IsSpace(Head(s)) THEN LStrip(Tail(s)) ELSE s

RECURSIVE RStrip(_)
RStrip(s) ==
    IF s # <<>> /\ IsSpace(s[Len(s)]) THEN RStrip(SubSeq(s, 1, Len(s) - 1)) ELSE s

\* str.strip()
Strip(s) == RStrip(LStrip(s))

\* re.sub("\s+", ",", s): every maximal run of whitespace becomes one ","
RECURSIVE ReSubSpaces(_)
ReSubSpaces(s) ==
    IF s = <<>> THEN <<>>
    ELSE IF IsSpace(Head(s)) THEN <<",">> \o ReSubSpaces(LStrip(s))
    ELSE <<Head(s)>> \o ReSubSpaces(Tail(s))

\* sig in line
Contains(line, sig) ==
    \E i \in 0..(Len(line) - Len(sig)) : SubSeq(line, i + 1, i + Len(sig)) = sig

\* the first whitespace-free run of s, and what follows it
RECURSIVE TakeField(_)
TakeField(s) ==
    IF s = <<>> \/ IsSpace(Head(s)) THEN <<>> ELSE <<Head(s)>> \o TakeField(Tail(s))

RECURSIVE DropField(_)
DropField(s) == IF s = <<>> \/ IsSpace(Head(s)) THEN s ELSE DropField(Tail(s))

\* the fields of a line under delimiter=r'\s+', skipinitialspace=True
RECURSIVE SplitFields(_)
SplitFields(s) ==
    LET t == LStrip(s)
    IN  IF t = <<>> THEN <<>> ELSE <<TakeField(t)>> \o SplitFields(DropField(t))

RECURSIVE Join(_, _)
Join(words, sep) ==
    IF words = <<>> THEN <<>>
    ELSE IF Len(words) = 1 THEN Head(words)
    ELSE Head(words) \o sep \o Join(Tail(words), sep)


(***************************************************************************)
(* decimal_hours_to_hh_mm_ss.  A decimal hour is held in milliseconds.     *)
(***************************************************************************)
MsPerSecond == 10 * 100
MsPerMinute == 60 * MsPerSecond
MsPerHour == 60 * MsPerMinute

\* "%.2f" % seconds: the seconds of the minute, rounded to hundredths (half to
\* even); the result is in hundredths of a second and is 6000 for "60.00"
Format2f(ms) ==
    LET q == ms \div 10
        r == ms % 10
    IN  IF r > 5 \/ (r = 5 /\ q % 2 = 1) THEN q + 1 ELSE q

\* mutant: the modulo of line 173 dropped
NoRollover_decimal_hours_to_hh_mm_ss(time) ==
    [hh |-> time \div MsPerHour,
     mm |-> (time \div MsPerMinute) % 60,
     ss |-> Format2f(time % MsPerMinute)]

\* The string "%02d:%02d:%.2f" % (hours, minutes, seconds) as its three fields:
\* hh and mm are the integers %02d prints, ss the hundredths %.2f prints.
\*   time = time % 24; hours = int(time);
\*   minutes = (time*60) % 60.  (truncated by %02d);
\*   seconds = (time*3600) % 60 (rounded by %.2f)
decimal_hours_to_hh_mm_ss(time) ==
    LET t == time % (24 * MsPerHour)
    IN  [hh |-> t \div MsPerHour,
         mm |-> (t \div MsPerMinute) % 60,
         ss |-> Format2f(t % MsPerMinute)]

\* pd.to_datetime(s, format='%H:%M:%S.%f'): milliseconds since midnight.  A
\* seconds field of 60 is matched by %S; whether it is then rejected or carried
\* into the next minute is left to the caller (lenient).
ToDatetime(s) == s.hh * MsPerHour + s.mm * MsPerMinute + s.ss * 10

(***************************************************************************)
(* aimms_to_df                                                             *)
(***************************************************************************)
\* the two header signatures of lines 119 and 121, as symbols
SigGeo1New ==
    <<"AoS", ",", "P_beta", ",", "P_alpha", ",", "W_spd", ",", "W_dir", ",",
      "Turb", ",", "LoadF", ".">>

SigGeo1Old ==
    <<"AoS", ",", "P_beta", ",", "P_alpha", ",", "C_p", ",", "W_spd", ",", "W_dir">>

\* mutant: the two tests in the other order
OldFirst_DetectFormat(line) ==
    IF Contains(line, SigGeo1Old) THEN "geo1_old"
    ELSE IF Contains(line, SigGeo1New) THEN "geo1_new"
    ELSE "nv5"

\* lines 119-124, on the substituted line
DetectFormat(line) ==
    IF Contains(line, SigGeo1New) THEN "geo1_new"
    ELSE IF Contains(line, SigGeo1Old) THEN "geo1_old"
    ELSE "nv5"

\* the names= lists of the three read_csv calls
CommonNames ==
    <<"Time", "Temp", "RH", "P_stat", "Uw", "Vw", "Lat", "Long", "Z", "Ui", "Vi",
      "Wi", "Roll", "Pitch", "Heading", "TAS", "Ww">>

NamesGeo1Old ==
    CommonNames \o <<"AoS", "P_beta", "P_alpha", "C_p", "W_spd", "W_dir">>

NamesGeo1New ==
    CommonNames \o <<"AoS", "P_beta", "P_alpha", "W_spd", "W_dir", "Turb", "LoadF">>

NamesNv5 == CommonNames \o <<"DimAoS", "AoA", "AoS", "Wind_Status">>

\* the drop(columns=...) lists
DropGeo1Old == {"AoS", "P_beta", "P_alpha", "C_p", "W_spd", "W_dir"}
DropGeo1New == {"AoS", "P_beta", "P_alpha", "W_spd", "W_dir", "Turb", "LoadF"}
DropNv5 == {"DimAoS", "AoA", "AoS", "Wind_Status"}

\* the skiprows= arguments
SkipGeo1Old == 3
SkipGeo1New == 3
SkipNv5 == 3

Max(a, b) == IF a > b THEN a ELSE b

RECURSIVE NonBlank(_)
NonBlank(rows) ==
    IF rows = <<>> THEN <<>>
    ELSE IF Head(rows) = <<>> THEN NonBlank(Tail(rows))
    ELSE <<Head(rows)>> \o NonBlank(Tail(rows))

\* pd.read_csv(file, skiprows=n, delimiter=r'\s+', skipinitialspace=True, names=names)
\* Blank lines are skipped.  The table is as wide as the wider of names and the
\* first data row; a later row with more fields is a ParserError, a row with
\* fewer is filled with NaN; when the table is wider than names its leading
\* fields become the index and names label the last Len(names) fields.
ReadCsv(file, skiprows, names) ==
    LET lines == SubSeq(file, skiprows + 1, Len(file))
        rows == NonBlank([i \in 1..Len(lines) |-> SplitFields(lines[i])])
        K == Len(names)
        W == IF rows = <<>> THEN K ELSE Max(Len(rows[1]), K)
        cell(r, j) == IF j <= Len(r) THEN r[j][1] ELSE "NaN"
    IN  IF \E i \in 1..Len(rows) : Len(rows[i]) > W
        THEN [error |-> "ParserError", rows |-> <<>>]
        ELSE [error |-> "",
              rows |-> [i \in 1..Len(rows) |->
                         [c \in 1..K |-> cell(rows[i], W - K + c)]]]

\* the decimal-hour tokens of the enumerated data rows, which cross midnight,
\* and their values to the millisecond (24.016666 h is 24 h and 59.9976 s)
TimeTokens ==
    <<"23.9990", "23.9995", "24.0000", "24.016666", "24.0170", "24.0175", "24.0180">>

TimeTokenMs ==
    <<23 * MsPerHour + 59 * MsPerMinute + 56400,
      23 * MsPerHour + 59 * MsPerMinute + 58200,
      24 * MsPerHour,
      24 * MsPerHour + 59997,
      24 * MsPerHour + MsPerMinute + 1200,
      24 * MsPerHour + MsPerMinute + 3000,
      24 * MsPerHour + MsPerMinute + 4800>>

\* float(token) of a Time cell, in milliseconds; -1 stands for NaN.  Every
\* other cell of an enumerated data row reads "1.0".
ParseHours(tok) ==
    IF \E i \in 1..Len(TimeTokens) : TimeTokens[i] = tok
    THEN TimeTokenMs[CHOOSE j \in 1..Len(TimeTokens) : TimeTokens[j] = tok]
    ELSE IF tok = "1.0" THEN MsPerHour
    ELSE -1

\* aimms_df.drop(columns=drop) on a table row, then the Time column as cell text
DropColumns(row, names, drop) ==
    [n \in {names[c] : c \in 1..Len(names)} \ drop |->
        row[CHOOSE c \in 1..Len(names) : names[c] = n]]

\* lines 126-156 for one of the three known formats.  lenient says whether this
\* pandas carries a seconds field of 60 into the next minute or rejects it.
ReadRecords(file, skiprows, names, drop, lenient) ==
    LET csv == ReadCsv(file, skiprows, names)
        raw == [i \in 1..Len(csv.rows) |-> DropColumns(csv.rows[i], names, drop)]
        hours == [i \in 1..Len(raw) |-> ParseHours(raw[i]["Time"])]
        text == [i \in 1..Len(raw) |-> decimal_hours_to_hh_mm_ss(hours[i])]
    IN  IF csv.error # "" THEN [error |-> csv.error, df |-> <<>>]
        ELSE IF \E i \in 1..Len(raw) : hours[i] < 0
        THEN [error |-> "ValueError", df |-> <<>>]       \* int(nan), line 175
        ELSE IF ~lenient /\ \E i \in 1..Len(raw) : text[i].ss >= 6000
        THEN [error |-> "ValueError", df |-> <<>>]       \* to_datetime, line 154
        ELSE [error |-> "",
              df |-> [i \in 1..Len(raw) |->
                        [raw[i] EXCEPT !["Time"] = ToDatetime(text[i])]]]

\* lines 115-124: format is None, the second line decides
ReadSecondLine ==
    /\ apc = "start"
    /\ format = "None"
    /\ IF Len(aimms_file) < 2
       THEN /\ apc' = "raised"                            \* f.readlines()[1]
            /\ aerr' = "IndexError"
            /\ UNCHANGED format
       ELSE /\ format' = DetectFormat(ReSubSpaces(Strip(aimms_file[2])))
            /\ apc' = "read"
            /\ UNCHANGED aerr
    /\ UNCHANGED <<aimms_file, hdr, given, aimms_df>>
    /\ UNCHANGED <<flow_vars, time_vars, solar_vars, window_vars, report_vars>>

\* line 115 with a format given by the caller
FormatGiven ==
    /\ apc = "start"
    /\ format # "None"
    /\ apc' = "read"
    /\ UNCHANGED <<aimms_file, hdr, given, format, aimms_df, aerr>>
    /\ UNCHANGED <<flow_vars, time_vars, solar_vars, window_vars, report_vars>>

\* the branches of lines 126-150 with every other format read as nv5
Nv5Else_ReadAs(file, fmt, lenient) ==
    CASE fmt = "geo1_old" ->
              ReadRecords(file, SkipGeo1Old, NamesGeo1Old, DropGeo1Old, lenient)
      [] fmt = "geo1_new" ->
              ReadRecords(file, SkipGeo1New, NamesGeo1New, DropGeo1New, lenient)
      [] OTHER -> ReadRecords(file, SkipNv5, NamesNv5, DropNv5, lenient)

\* lines 126-156: one branch for each of the three formats, and
\* sys.exit("AIMMS format not recognized") for any other
ReadAs(file, fmt, lenient) ==
    CASE fmt = "geo1_old" ->
              ReadRecords(file, SkipGeo1Old, NamesGeo1Old, DropGeo1Old, lenient)
      [] fmt = "geo1_new" ->
              ReadRecords(file, SkipGeo1New, NamesGeo1New, DropGeo1New, lenient)
      [] fmt = "nv5" ->
              ReadRecords(file, SkipNv5, NamesNv5, DropNv5, lenient)
      [] OTHER -> [error |-> "SystemExit", df |-> <<>>]   \* line 150

\* lines 126-156
ReadTable ==
    /\ apc = "read"
    /\ \E lenient \in BOOLEAN :
         LET r == ReadAs(aimms_file, format, lenient)
         IN  /\ aerr' = r.error
             /\ aimms_df' = r.df
             /\ apc' = IF r.error = "" THEN "returned" ELSE "raised"
    /\ UNCHANGED <<aimms_file, hdr, given, format>>
    /\ UNCHANGED <<flow_vars, time_vars, solar_vars, window_vars, report_vars>>

(***************************************************************************)
(* The enumerated probe files.                                             *)
(***************************************************************************)
Banner == <<"AIMMS", " ", "extract">>
UnitsLine == <<"hr", " ", "C", " ", "%", " ", "Pa">>

\* the header words of the docstring (lines 102 and 106), each a run of symbols
LeadWords ==
    << <<"Time">>, <<"Temp", ".">>, <<"RH">>, <<"P_stat">>, <<"Uw">>, <<"Vw">>,
       <<"Lat", ".">>, <<"Long", ".">>, <<"Z">>, <<"Ui">>, <<"Vi">>, <<"Wi">>,
       <<"Roll">>, <<"Pitch">>, <<"Heading">>, <<"TAS">>, <<"Ww">> >>

OldWords ==
    << <<"AoS">>, <<"P_beta">>, <<"P_alpha">>, <<"C_p">>, <<"W_spd">>, <<"W_dir">> >>

NewWords ==
    << <<"AoS">>, <<"P_beta">>, <<"P_alpha">>, <<"W_spd">>, <<"W_dir">>, <<"Turb">>,
       <<"LoadF">> >>

NewWordsDot ==
    << <<"AoS">>, <<"P_beta">>, <<"P_alpha">>, <<"W_spd">>, <<"W_dir">>, <<"Turb">>,
       <<"LoadF", ".">> >>

Nv5Words == << <<"DimAoS">>, <<"AoA">>, <<"AoS">>, <<"Wind_Status">> >>

TailKinds == {"new_dot", "new_nodot", "old", "old_then_new_dot", "nv5_names"}

TailWords(kind) ==
    CASE kind = "new_dot" -> NewWordsDot
      [] kind = "new_nodot" -> NewWords
      [] kind = "old" -> OldWords
      [] kind = "old_then_new_dot" -> OldWords \o NewWordsDot
      [] kind = "nv5_names" -> Nv5Words

Separators == {<<" ">>, <<" ", "\t", " ">>}
Paddings == {<<>>, <<"\t", " ">>}
Widths == {Len(NamesNv5), Len(NamesGeo1Old), Len(NamesGeo1New)}
Formats == {"None", "geo1_old", "geo1_new", "nv5", "rad"}

HeaderLine(h) ==
    h.pad \o Join((IF h.lead THEN LeadWords ELSE <<>>) \o TailWords(h.tail), h.sep)
          \o h.pad

\* data row i of a file: its Time token, then cells reading 1.0
DataRow(h, i) ==
    LET w == IF i = h.badAt THEN h.width + h.badDelta ELSE h.width
    IN  Join([j \in 1..w |-> IF j = 1 THEN <<TimeTokens[i]>> ELSE <<"1.0">>], <<" ">>)

FileOf(h) ==
    CASE h.layout = "banner_only" -> <<Banner>>
      [] h.layout = "headerless" -> [i \in 1..h.nrows |-> DataRow(h, i)]
      [] h.layout = "geo1" ->
           <<Banner, HeaderLine(h), UnitsLine>> \o [i \in 1..h.nrows |-> DataRow(h, i)]

Inputs ==
    {h \in [layout : {"geo1", "headerless", "banner_only"}, lead : BOOLEAN,
            tail : TailKinds, sep : Separators, pad : Paddings,
            nrows : 0..MaxRows, width : Widths, badAt : 0..MaxRows,
            badDelta : {-1, 0, 1}] :
        /\ h.badAt <= h.nrows
        /\ (h.badAt = 0) = (h.badDelta = 0)
        /\ h.layout # "geo1" =>
              /\ h.lead /\ h.tail = "nv5_names" /\ h.sep = <<" ">> /\ h.pad = <<>>
        /\ h.layout = "banner_only" => h.nrows = 0 /\ h.width = Len(NamesNv5)}

AimmsInit ==
    /\ hdr \in Inputs
    /\ aimms_file = FileOf(hdr)
    /\ given \in Formats
    /\ format = given
    \* with a format given the header is never read: one header stands for all
    /\ given # "None" =>
          /\ hdr.layout = "geo1" => hdr.tail = "new_dot"
          /\ hdr.lead /\ hdr.sep = <<" ">> /\ hdr.pad = <<>>
    /\ aimms_df = <<>>
    /\ apc = "start"
    /\ aerr = ""
    /\ TimeIdle /\ SolarIdle /\ WindowIdle /\ ReportIdle /\ FlowIdle

AimmsNext == ReadSecondLine \/ FormatGiven \/ ReadTable

SpecAimms == AimmsInit /\ [][AimmsNext]_vars

(***************************************************************************)
(* Claims about aimms_to_df, checked under SpecAimms.                       *)
(***************************************************************************)
\* the second line of the file was read and a format resolved from it
Detected == given = "None" /\ apc # "start" /\ aerr # "IndexError"

\* C1 (as stated): a second line carrying the tail AoS ... Turb LoadF of the
\* interface description resolves to geo1_new, one carrying AoS ... C_p W_spd
\* W_dir to geo1_old, any other second line to nv5.
C1_DocumentedTails ==
    Detected =>
        format = (IF hdr.layout = "geo1" /\ hdr.tail \in {"new_dot", "new_nodot",
                                                        "old_then_new_dot"}
                  THEN "geo1_new"
                  ELSE IF hdr.layout = "geo1" /\ hdr.tail = "old" THEN "geo1_old"
                  ELSE "nv5")

\* C1 (amended): the geo1_new signature ends in a period.  A second line holding
\* AoS,P_beta,P_alpha,W_spd,W_dir,Turb,LoadF. (after strip and whitespace
\* substitution) resolves to geo1_new, also when it holds the geo1_old signature
\* too; otherwise one holding AoS,P_beta,P_alpha,C_p,W_spd,W_dir resolves to
\* geo1_old; every other line, the LoadF tail without the period included,
\* resolves to nv5.
C1_SignatureWithPeriod ==
    Detected =>
        format = (IF hdr.layout = "geo1" /\ hdr.tail \in {"new_dot", "old_then_new_dot"}
                  THEN "geo1_new"
                  ELSE IF hdr.layout = "geo1" /\ hdr.tail = "old" THEN "geo1_old"
                  ELSE "nv5")

\* C1 witness: a tab-and-blank separated header holding both signatures was
\* resolved, to geo1_new
C1_Witness ==
    /\ Detected
    /\ hdr.layout = "geo1" /\ hdr.tail = "old_then_new_dot"
    /\ hdr.sep = <<" ", "\t", " ">> /\ hdr.pad # <<>>
    /\ format = "geo1_new"

\* C2: detection raises nothing; a file of fewer than two lines resolves to
\* nv5 and every other file to one of the three formats.
C2_DetectionNeverRaises ==
    (given = "None" /\ apc # "start") =>
        /\ aerr # "IndexError"
        /\ format \in {"geo1_old", "geo1_new", "nv5"}
        /\ Len(aimms_file) < 2 => format = "nv5"

\* C3: a well-formed headerless nv5 file of N rows parses to N records, the
\* first of them the first row of the file; a well-formed geo1 file parses to
\* its data rows (3 rows skipped).
C3_SkippedRows ==
    (apc = "returned" /\ hdr.badAt = 0) =>
        /\ (hdr.layout = "headerless" /\ format = "nv5" /\ hdr.width = 21) =>
              /\ Len(aimms_df) = hdr.nrows
              /\ hdr.nrows > 0 =>       \* the first row is stamped 23:59:56.40
                    aimms_df[1]["Time"] = 23 * MsPerHour + 59 * MsPerMinute + 56400
        /\ (hdr.layout = "geo1" /\ format = "geo1_old" /\ hdr.width = 23) =>
              Len(aimms_df) = hdr.nrows
        /\ (hdr.layout = "geo1" /\ format = "geo1_new" /\ hdr.width = 24) =>
              Len(aimms_df) = hdr.nrows

\* C4: when a parsed data row has another field count than the schema of the
\* format (23, 24, 21), aimms_to_df fails and returns no records.
C4_SchemaMismatchIsFatal ==
    LET schema == CASE format = "geo1_old" -> 23
                    [] format = "geo1_new" -> 24
                    [] format = "nv5" -> 21
                    [] OTHER -> 0
    IN  (/\ apc \in {"returned", "raised"}
         /\ hdr.layout = "geo1" /\ hdr.nrows >= 1
         /\ schema # 0
         /\ hdr.width # schema \/ hdr.badAt # 0)
        => (apc = "raised" /\ aimms_df = <<>>)

(***************************************************************************)
(* decimal_hours_to_hh_mm_ss on enumerated decimal hours: SpecTime.         *)
(***************************************************************************)
\* the enumerated decimal hours: an hour, a minute and milliseconds of the
\* minute on both sides of every rounding step, plus whole days
TimeInputs ==
    {d * 24 * MsPerHour + h * MsPerHour + m * MsPerMinute + ms :
        d \in -1..MaxWrap, h \in {0, 1, 13, 23}, m \in {0, 30, 59},
        ms \in {0, 4, 1000, 30000, 59994, 59996, 59999}}

TimeInit ==
    /\ time_in \in TimeInputs
    /\ time_out = NoText
    /\ time_out24 = NoText
    /\ tpc = "start"
    /\ AimmsIdle /\ SolarIdle /\ WindowIdle /\ ReportIdle /\ FlowIdle

\* the conversion applied to t and to t + 24
Convert ==
    /\ tpc = "start"
    /\ time_out' = decimal_hours_to_hh_mm_ss(time_in)
    /\ time_out24' = decimal_hours_to_hh_mm_ss(time_in + 24 * MsPerHour)
    /\ tpc' = "done"
    /\ UNCHANGED time_in
    /\ UNCHANGED <<flow_vars, aimms_vars, solar_vars, window_vars, report_vars>>

TimeNext == Convert

SpecTime == TimeInit /\ [][TimeNext]_vars

C6_ValidTimeOfDay ==
    (tpc = "done" /\ time_in >= 0) =>
        /\ time_out.hh \in 0..23
        /\ time_out.mm \in 0..59
        /\ time_out.ss < 6000

(***************************************************************************)
(* solar_to_df: SpecSolar.  Irradiance is held in hundredths.  The first    *)
(* line of the file is a sequence of words and bytes ("C2", "B5", ...);     *)
(* open(solar_file, "r") decodes it in the encoding of the locale.          *)
(***************************************************************************)
\* the factor 4.57 of line 67, in hundredths
WattsToMicroMoles == 457

\* the unit tokens the code compares with (lines 66 and 69).  The literal of
\* line 69 is the four bytes C3 8E C2 BC followed by moles: the characters
\* U+00CE and U+00BC, not a micro sign.
UnitsWatts == <<"watts/m2">>
UnitsWm2 == <<"W/m2">>
UnitsLine69 == <<"U+00CE", "U+00BC", "moles">>

\* the text f.readline() returns for the bytes of a line: in UTF-8 the pairs
\* C2 B5 and CE BC are the micro sign and the Greek mu and a lone B5 cannot be
\* decoded; in cp1252 every byte is a character of its own
RECURSIVE Decode(_, _)
Decode(bytes, enc) ==
    IF bytes = <<>> THEN [error |-> "", text |-> <<>>]
    ELSE LET b == Head(bytes)
             two == Len(bytes) >= 2
             one(c) == LET r == Decode(Tail(bytes), enc)
                       IN  [error |-> r.error, text |-> <<c>> \o r.text]
             pair(c) == LET r == Decode(Tail(Tail(bytes)), enc)
                        IN  [error |-> r.error, text |-> <<c>> \o r.text]
         IN  IF b \notin {"C2", "B5", "CE", "BC"} THEN one(b)
             ELSE IF enc = "cp1252"
             THEN one(CASE b = "C2" -> "U+00C2" [] b = "B5" -> "U+00B5"
                        [] b = "CE" -> "U+00CE" [] b = "BC" -> "U+00BC")
             ELSE IF two /\ b = "C2" /\ bytes[2] = "B5" THEN pair("U+00B5")
             ELSE IF two /\ b = "CE" /\ bytes[2] = "BC" THEN pair("U+03BC")
             ELSE [error |-> "UnicodeDecodeError", text |-> <<>>]

\* first_line.split(","): the fields between the commas
RECURSIVE SplitComma(_)
SplitComma(s) ==
    IF \E i \in 1..Len(s) : s[i] = ","
    THEN LET i == CHOOSE j \in 1..Len(s) : s[j] = "," /\ \A k \in 1..(j - 1) : s[k] # ","
         IN  <<SubSeq(s, 1, i - 1)>> \o SplitComma(SubSeq(s, i + 1, Len(s)))
    ELSE <<s>>

\* the LocalTime texts of the enumerated rows and pd.to_datetime(.., "%H:%M:%S")
\* of them, in milliseconds since midnight
ClockTokens == <<"10:00:00", "10:00:01", "10:00:02", "10:00:03", "10:00:04">>

ParseClock(text) ==
    LET i == CHOOSE j \in 1..Len(ClockTokens) : <<ClockTokens[j]>> = text
    IN  10 * MsPerHour + (i - 1) * MsPerSecond

\* mutant: only the spelling watts/m2 is converted
OnlyWatts_UnitConversion(u, column) ==
    IF u = UnitsWatts
    THEN [column |-> [i \in 1..Len(column) |-> (column[i] * WattsToMicroMoles) \div 100],
          printed |-> "Converting W/m2 to MicroMoles"]
    ELSE IF u = UnitsLine69
    THEN [column |-> column, printed |-> "No unit conversion applied."]
    ELSE [column |-> column,
          printed |-> "Warning! Units not recognized, no conversion applied!"]

\* mutant: the else branch reports nothing
Silent_UnitConversion(u, column) ==
    IF u = UnitsWatts \/ u = UnitsWm2
    THEN [column |-> [i \in 1..Len(column) |-> (column[i] * WattsToMicroMoles) \div 100],
          printed |-> "Converting W/m2 to MicroMoles"]
    ELSE [column |-> column, printed |-> "No unit conversion applied."]

\* lines 65-72: the MicroMoles column after the conversion, and the line printed
UnitConversion(u, column) ==
    IF u = UnitsWatts \/ u = UnitsWm2
    THEN [column |-> [i \in 1..Len(column) |-> (column[i] * WattsToMicroMoles) \div 100],
          printed |-> "Converting W/m2 to MicroMoles"]
    ELSE IF u = UnitsLine69
    THEN [column |-> column, printed |-> "No unit conversion applied."]
    ELSE [column |-> column,
          printed |-> "Warning! Units not recognized, no conversion applied!"]

\* lines 49-53
ReadUnits ==
    /\ spc = "start"
    /\ LET line == Decode(solar_file.first_line, solar_file.encoding)
           fields == SplitComma(line.text)
       IN  IF line.error # ""
           THEN /\ spc' = "raised"                         \* f.readline()
                /\ serr' = line.error
                /\ UNCHANGED <<units, stdout>>
           ELSE IF Len(fields) < 3
           THEN /\ spc' = "raised"                         \* split(",")[2]
                /\ serr' = "IndexError"
                /\ UNCHANGED <<units, stdout>>
           ELSE /\ units' = Strip(fields[3])
                /\ stdout' = Append(stdout, "Discovered units")
                /\ spc' = "units"
                /\ UNCHANGED serr
    /\ UNCHANGED <<solar_in, solar_file, raw_solar_df>>
    /\ UNCHANGED <<flow_vars, aimms_vars, time_vars, window_vars, report_vars>>

\* lines 55-63: read_csv(skiprows=header_rows), LocalTime stripped and parsed
ReadSolarTable ==
    /\ spc = "units"
    /\ raw_solar_df' =
          [i \in 1..Len(solar_file.rows) |->
              [LocalTime |-> ParseClock(LStrip(solar_file.rows[i].LocalTime)),
               MicroMoles |-> 100 * solar_file.rows[i].MicroMoles]]
    /\ spc' = "table"
    /\ UNCHANGED <<solar_in, solar_file, units, stdout, serr>>
    /\ UNCHANGED <<flow_vars, aimms_vars, time_vars, window_vars, report_vars>>

\* lines 65-74
ConvertUnits ==
    /\ spc = "table"
    /\ LET c == UnitConversion(units,
                    [i \in 1..Len(raw_solar_df) |-> raw_solar_df[i].MicroMoles])
       IN  /\ raw_solar_df' =
                 [i \in 1..Len(raw_solar_df) |->
                     [raw_solar_df[i] EXCEPT !.MicroMoles = c.column[i]]]
           /\ stdout' = Append(stdout, c.printed)
    /\ spc' = "returned"
    /\ UNCHANGED <<solar_in, solar_file, units, serr>>
    /\ UNCHANGED <<flow_vars, aimms_vars, time_vars, window_vars, report_vars>>

\* the enumerated solar files
\* the ways a file can spell micromoles: the micro sign or the Greek mu in
\* UTF-8, or the micro sign as the single byte of cp1252
MicroSignUtf8 == <<"C2", "B5", "moles">>
GreekMuUtf8 == <<"CE", "BC", "moles">>
MicroSignCp1252 == <<"B5", "moles">>
MicroMolesTokens == {MicroSignUtf8, GreekMuUtf8, MicroSignCp1252}
UnitTokens ==
    {UnitsWatts, UnitsWm2, <<"lux">>, <<"w/m2">>, <<>>} \cup MicroMolesTokens

Readings == {0, 100, 200}

ReadingSeqs == UNION {[1..n -> Readings] : n \in 0..MaxSolarRows}

SolarInputs ==
    {x \in [fields : {2, 3}, token : UnitTokens, pad : {<<>>, <<" ">>},
            encoding : {"utf-8", "cp1252"}, readings : ReadingSeqs] :
        x.fields = 2 => (x.token = <<>> /\ x.pad = <<>>)}

SolarFileOf(x) ==
    [encoding |-> x.encoding,
     first_line |->
        IF x.fields = 2 THEN <<"Date", ",", "Time">>
        ELSE <<"Date", ",", "Time", ",">> \o x.pad \o x.token \o x.pad,
     rows |-> [i \in 1..Len(x.readings) |->
                 [LocalTime |-> x.pad \o <<ClockTokens[i]>>,
                  MicroMoles |-> x.readings[i]]]]

SolarInit ==
    /\ solar_in \in SolarInputs
    /\ solar_file = SolarFileOf(solar_in)
    /\ units = <<>>
    /\ raw_solar_df = <<>>
    /\ stdout = <<>>
    /\ spc = "start"
    /\ serr = ""
    /\ AimmsIdle /\ TimeIdle /\ WindowIdle /\ ReportIdle /\ FlowIdle

SolarNext == ReadUnits \/ ReadSolarTable \/ ConvertUnits

SpecSolar == SolarInit /\ [][SolarNext]_vars

Printed(msg) == \E i \in 1..Len(stdout) : stdout[i] = msg

Warned == Printed("Warning! Units not recognized, no conversion applied!")

\* C7: under the unit token watts/m2 or W/m2 every irradiance value is
\* multiplied by 4.57, once
C7_WattsConverted ==
    (spc = "returned" /\ solar_in.token \in {<<"watts/m2">>, <<"W/m2">>}) =>
        /\ Len(raw_solar_df) = Len(solar_in.readings)
        /\ \A i \in 1..Len(raw_solar_df) :
              raw_solar_df[i].MicroMoles = 457 * solar_in.readings[i]

\* C7 witness: 100 and 200 under a padded W/m2 token came out as 457.00 and 914.00
C7_Witness ==
    /\ spc = "returned"
    /\ solar_in.token = <<"W/m2">> /\ solar_in.pad = <<" ">>
    /\ solar_in.readings = <<100, 200>>
    /\ raw_solar_df[1].MicroMoles = 45700 /\ raw_solar_df[2].MicroMoles = 91400

\* C8: under a unit token that denotes micromoles the values are unchanged and
\* no unrecognized-unit warning is printed
C8_MicroMolesSilent ==
    (spc = "returned" /\ solar_in.token \in MicroMolesTokens) =>
        /\ \A i \in 1..Len(raw_solar_df) :
              raw_solar_df[i].MicroMoles = 100 * solar_in.readings[i]
        /\ ~Warned

\* C9: under a unit token that is neither of the watt spellings nor micromoles
\* solar_to_df does not fail, leaves the values unchanged and prints a warning
C9_UnknownUnitPassesThrough ==
    (/\ solar_in.fields = 3
     /\ solar_in.token \notin {<<"watts/m2">>, <<"W/m2">>} \cup MicroMolesTokens) =>
        /\ spc # "raised"
        /\ spc = "returned" =>
              /\ Len(raw_solar_df) = Len(solar_in.readings)
              /\ \A i \in 1..Len(raw_solar_df) :
                    raw_solar_df[i].MicroMoles = 100 * solar_in.readings[i]
              /\ Warned

\* C9 witness: a file under the token lux was read, unchanged, with the warning
C9_Witness ==
    /\ spc = "returned"
    /\ solar_in.token = <<"lux">>
    /\ solar_in.readings = <<200, 0, 100>>
    /\ raw_solar_df[1].MicroMoles = 20000
    /\ Warned

(***************************************************************************)
(* The smoothing windows of check_weather_data (lines 318-327) and of       *)
(* solar_to_stats (lines 88-100): SpecWindow.                               *)
(***************************************************************************)
\* Series.diff() without its leading NaT
Diff(col) == [i \in 1..(Len(col) - 1) |-> col[i + 1] - col[i]]

\* .median() of the differences: NaT when there is none, else the middle one or
\* the mean of the two middle ones; held doubled (ms2) so that the mean is exact
Median(d) ==
    LET srt == SortSeq(d, LAMBDA a, b : a < b)
        n == Len(d)
    IN  IF n = 0 THEN [nat |-> TRUE, ms2 |-> 0]
        ELSE IF n % 2 = 1 THEN [nat |-> FALSE, ms2 |-> 2 * srt[(n + 1) \div 2]]
        ELSE [nat |-> FALSE, ms2 |-> srt[n \div 2] + srt[n \div 2 + 1]]

\* int(seconds / sample_rate.total_seconds()): the quotient truncated towards 0
IntOfQuotient(seconds, rate) ==
    LET a == seconds * 2 * MsPerSecond
        b == rate.ms2
    IN  IF b > 0 THEN a \div b ELSE -(a \div (-b))

WeatherChannels == {"wind", "temp", "pressure", "relhumid"}
SolarChannels == {"solar"}

\* line 319 of weather_qc.py, line 89 of solar_stats.py
EstimateSampleRate ==
    /\ wpc = "start"
    /\ sample_rate' = Median(Diff(times))
    /\ wpc' = "rate"
    /\ UNCHANGED <<pipeline, times, smoothing, windows, werr>>
    /\ UNCHANGED <<flow_vars, aimms_vars, time_vars, solar_vars, report_vars>>

\* weather_qc.py lines 324-327
WeatherWindows ==
    /\ wpc = "rate"
    /\ pipeline = "weather"
    /\ IF sample_rate.nat
       THEN wpc' = "raised" /\ werr' = "ValueError" /\ UNCHANGED windows    \* int(nan)
       ELSE IF sample_rate.ms2 = 0
       THEN wpc' = "raised" /\ werr' = "ZeroDivisionError" /\ UNCHANGED windows
       ELSE /\ windows' = [c \in WeatherChannels |->
                              IntOfQuotient(smoothing[c], sample_rate)]
            /\ wpc' = "done"
            /\ UNCHANGED werr
    /\ UNCHANGED <<pipeline, times, smoothing, sample_rate>>
    /\ UNCHANGED <<flow_vars, aimms_vars, time_vars, solar_vars, report_vars>>

\* solar_stats.py lines 98-100
SolarWindow ==
    /\ wpc = "rate"
    /\ pipeline = "solar"
    /\ IF sample_rate.nat
       THEN wpc' = "raised" /\ werr' = "ValueError" /\ UNCHANGED windows    \* int(nan)
       ELSE IF sample_rate.ms2 = 0
       THEN wpc' = "raised" /\ werr' = "ZeroDivisionError" /\ UNCHANGED windows
       ELSE /\ LET smoothing_rate == IntOfQuotient(smoothing["solar"], sample_rate)
               IN  windows' = [c \in SolarChannels |->
                                  IF smoothing_rate < 1 THEN 1 ELSE smoothing_rate]
            /\ wpc' = "done"
            /\ UNCHANGED werr
    /\ UNCHANGED <<pipeline, times, smoothing, sample_rate>>
    /\ UNCHANGED <<flow_vars, aimms_vars, time_vars, solar_vars, report_vars>>

\* the enumerated time columns and smoothing periods
Steps == {0, 500, 1000, 30000}
Periods == {1, 10, 20}

StepSeqs == UNION {[1..n -> Steps] : n \in 0..MaxDiffs}

RECURSIVE TimesOf(_, _)
TimesOf(start, steps) ==
    IF steps = <<>> THEN <<start>>
    ELSE <<start>> \o TimesOf(start + Head(steps), Tail(steps))

WindowInit ==
    /\ pipeline \in {"weather", "solar"}
    /\ \E steps \in StepSeqs : times = TimesOf(10 * MsPerHour, steps)
    /\ smoothing \in [IF pipeline = "weather" THEN WeatherChannels ELSE SolarChannels
                        -> Periods]
    /\ sample_rate = NoRate
    /\ windows = <<>>
    /\ wpc = "start"
    /\ werr = ""
    /\ AimmsIdle /\ TimeIdle /\ SolarIdle /\ ReportIdle /\ FlowIdle

WindowNext == EstimateSampleRate \/ WeatherWindows \/ SolarWindow

SpecWindow == WindowInit /\ [][WindowNext]_vars

\* C10: in both pipelines every window is floor(smoothing_seconds /
\* median_interval_seconds), and 1 when that is below 1
C10_WindowAtLeastOne ==
    wpc = "done" =>
        \A c \in DOMAIN windows :
            LET q == (smoothing[c] * 2000) \div sample_rate.ms2
            IN  windows[c] = (IF q < 1 THEN 1 ELSE q)

(***************************************************************************)
(* weather_to_stats (weather_qc.py lines 29-231) and combined_components   *)
(* (lines 234-256): SpecStats.                                             *)
(*                                                                         *)
(* A channel value is a record [nan, v].  The values of Uw, Vw, Temp, RH   *)
(* and P_stat are held in halves (3.0 is v = 6), so that the mean of two   *)
(* whole readings is exact; Computed_WS is held in millionths.             *)
(***************************************************************************)
NaN == [nan |-> TRUE, v |-> 0]
Num(x) == [nan |-> FALSE, v |-> x]
Halves(x) == 2 * x
Millionths(x) == x * 1000 * 1000

\* the base-100 digits of n, most significant first
RECURSIVE Pairs(_)
Pairs(n) == IF n < 100 THEN <<n>> ELSE Pairs(n \div 100) \o <<n % 100>>

\* long-hand square root: p is the root of the digits read so far, c the remainder
RECURSIVE SqrtSteps(_, _, _)
SqrtSteps(p, c, pairs) ==
    IF pairs = <<>> THEN [p |-> p, c |-> c]
    ELSE LET c2 == c * 100 + Head(pairs)
             x == CHOOSE d \in 0..9 :
                     /\ (20 * p + d) * d <= c2
                     /\ d < 9 => (20 * p + d + 1) * (d + 1) > c2
         IN  SqrtSteps(10 * p + x, c2 - (20 * p + x) * x, Tail(pairs))

\* round(math.sqrt(n), digits), as an integer count of 10^-digits
RoundedSqrt(n, digits) ==
    LET s == SqrtSteps(0, 0, Pairs(n) \o [i \in 1..digits |-> 0])
    IN  IF s.c > s.p THEN s.p + 1 ELSE s.p

\* the same with the rounding left out (the root truncated to the digits)
Truncated_combined_components(x, y) ==
    IF x.nan \/ y.nan THEN NaN
    ELSE Num(SqrtSteps(0, 0, Pairs(25 * (x.v * x.v + y.v * y.v))
                                \o [i \in 1..5 |-> 0]).p)

\* round(math.sqrt(math.pow(x,2) + math.pow(y,2)), 6), line 254.  With x and y in
\* halves, sqrt((x/2)^2 + (y/2)^2) * 10^6 = sqrt(25 * (x^2 + y^2)) * 10^5.
combined_components(x, y) ==
    IF x.nan \/ y.nan THEN NaN
    ELSE Num(RoundedSqrt(25 * (x.v * x.v + y.v * y.v), 5))

RECURSIVE SumV(_, _, _)
SumV(col, from, to) == IF from > to THEN 0 ELSE col[from].v + SumV(col, from + 1, to)

\* the same with min_periods=1: the mean of the samples there are
MinPeriods1_Rolling(col, w) ==
    [i \in 1..Len(col) |->
        IF w = 0 \/ \E j \in Max(1, i - w + 1)..i : col[j].nan THEN NaN
        ELSE Num(SumV(col, Max(1, i - w + 1), i) \div (i - Max(1, i - w + 1) + 1))]

\* Series.rolling(window=w).mean(): NaN until w samples are in the window (always,
\* when w = 0) and when the window holds a NaN
Rolling(col, w) ==
    [i \in 1..Len(col) |->
        IF w = 0 \/ i < w \/ \E j \in (i - w + 1)..i : col[j].nan THEN NaN
        ELSE Num(SumV(col, i - w + 1, i) \div w)]

Column(df, name) == [i \in 1..Len(df) |-> df[i][name]]

\* df[name] = col: the column is replaced, or added, in the frame itself
SetColumn(df, name, col) ==
    [i \in 1..Len(df) |->
        [c \in DOMAIN df[i] \cup {name} |-> IF c = name THEN col[i] ELSE df[i][c]]]

\* len(df.loc[df[name] == 0]) and len(df.loc[df[name] > limit])
CountZero(df, name) == Cardinality({i \in 1..Len(df) : ~df[i][name].nan /\ df[i][name].v = 0})
CountAbove(df, name, limit) ==
    Cardinality({i \in 1..Len(df) : ~df[i][name].nan /\ df[i][name].v > limit})

\* the record counts n = 6m + 3, whose n/60 lies midway between two tenths, for
\* which the double nearest to n/60 lies above the midpoint
TiesAbove == {3, 27, 33, 39, 45, 63, 81, 93, 105, 111}

\* round(n / 60, 1), in tenths
Round1Of60(n) ==
    LET q == (10 * n) \div 60
        r == (10 * n) % 60
    IN  IF r > 30 \/ (r = 30 /\ n \in TiesAbove) THEN q + 1 ELSE q

\* the same without the rounding: the n / 60 > 1 of the minute-equivalent rule
Unrounded_ExceedsOneMinute(n) == n > 60

\* round(n / 60, 1) > 1
ExceedsOneMinute(n) == Round1Of60(n) > 10

ZeroWindWarning == "windspeed of 0 m/sec"
HighWindWarning == "windspeed of >27 m/sec"
ZeroTempWarning == "0 temperature"
ZeroPressureWarning == "0 pressure"

\* lines 109-136 (and again 161-168): the warnings of a smoothed frame
Warnings(df) ==
    {w \in {ZeroWindWarning} : ExceedsOneMinute(CountZero(df, "Computed_WS"))}
    \cup {w \in {HighWindWarning} :
            ExceedsOneMinute(CountAbove(df, "Computed_WS", Millionths(27)))}
    \cup {w \in {ZeroTempWarning} : ExceedsOneMinute(CountZero(df, "Temp"))}
    \cup {w \in {ZeroPressureWarning} : ExceedsOneMinute(CountZero(df, "Temp"))}

\* lines 65-69: the five channels are smoothed in the caller's frame
Smooth ==
    /\ stpc = "start"
    /\ LET d1 == SetColumn(raw_weather_df, "Uw",
                           Rolling(Column(raw_weather_df, "Uw"), ws_windows.wind))
           d2 == SetColumn(d1, "Vw", Rolling(Column(d1, "Vw"), ws_windows.wind))
           d3 == SetColumn(d2, "Temp", Rolling(Column(d2, "Temp"), ws_windows.temp))
           d4 == SetColumn(d3, "RH", Rolling(Column(d3, "RH"), ws_windows.relhumid))
       IN  raw_weather_df' =
               SetColumn(d4, "P_stat", Rolling(Column(d4, "P_stat"), ws_windows.pressure))
    /\ stpc' = "smoothed"
    /\ UNCHANGED <<stats_in, ws_windows, console, weather_stats, sterr, timing>>
    /\ UNCHANGED <<flow_vars, aimms_vars, time_vars, solar_vars, window_vars, sstats_vars, mission_vars>>

\* lines 72-89: the timing (iloc[0] of an empty column raises) and Computed_WS
ComputeWS ==
    /\ stpc = "smoothed"
    /\ IF raw_weather_df = <<>>
       THEN /\ stpc' = "raised" /\ sterr' = "IndexError"
            /\ UNCHANGED <<raw_weather_df, timing>>
       ELSE /\ timing' =
                   [duration |-> raw_weather_df[Len(raw_weather_df)]["Time"].v
                                     - raw_weather_df[1]["Time"].v,
                    length |-> Len(raw_weather_df),
                    utc_start_time |-> raw_weather_df[1]["Time"].v,
                    utc_end_time |-> raw_weather_df[Len(raw_weather_df)]["Time"].v]
            /\ raw_weather_df' =
                   SetColumn(raw_weather_df, "Computed_WS",
                             [i \in 1..Len(raw_weather_df) |->
                                 combined_components(raw_weather_df[i]["Uw"],
                                                     raw_weather_df[i]["Vw"])])
            /\ stpc' = "computed"
            /\ UNCHANGED sterr
    /\ UNCHANGED <<stats_in, ws_windows, console, weather_stats>>
    /\ UNCHANGED <<flow_vars, aimms_vars, time_vars, solar_vars, window_vars, sstats_vars, mission_vars>>

\* lines 109-136
PrintWarnings ==
    /\ stpc = "computed"
    /\ console' = Warnings(raw_weather_df)
    /\ stpc' = "printed"
    /\ UNCHANGED <<stats_in, raw_weather_df, ws_windows, weather_stats, sterr, timing>>
    /\ UNCHANGED <<flow_vars, aimms_vars, time_vars, solar_vars, window_vars, sstats_vars, mission_vars>>

\* lines 138-168
WriteWeatherStats ==
    /\ stpc = "printed"
    /\ weather_stats' = <<Warnings(raw_weather_df)>>
    /\ stpc' = "written"
    /\ UNCHANGED <<stats_in, raw_weather_df, ws_windows, console, sterr, timing>>
    /\ UNCHANGED <<flow_vars, aimms_vars, time_vars, solar_vars, window_vars, sstats_vars, mission_vars>>

\* lines 170-231: the plots are drawn from the frame and the function returns
PlotAndReturn ==
    /\ stpc = "written"
    /\ stpc' = "returned"
    /\ UNCHANGED <<stats_in, raw_weather_df, ws_windows, console, weather_stats, sterr, timing>>
    /\ UNCHANGED <<flow_vars, aimms_vars, time_vars, solar_vars, window_vars, sstats_vars, mission_vars>>

\* the enumerated probe series: a long run of one kind of sample followed by a
\* short run of another, one second apart
MaxRun == 64
RunLengths == {0, 1} \cup (60..MaxRun)
TailLengths == {0, 2}
SampleKinds ==
    [calm    |-> [Uw |-> 0, Vw |-> 0, Temp |-> 20, RH |-> 50, P_stat |-> 900],
     breeze  |-> [Uw |-> 3, Vw |-> 4, Temp |-> 20, RH |-> 50, P_stat |-> 900],
     back    |-> [Uw |-> -3, Vw |-> -4, Temp |-> 20, RH |-> 50, P_stat |-> 900],
     edge    |-> [Uw |-> 0, Vw |-> 27, Temp |-> 20, RH |-> 50, P_stat |-> 900],
     gale    |-> [Uw |-> 18, Vw |-> -24, Temp |-> 20, RH |-> 50, P_stat |-> 900],
     frozen  |-> [Uw |-> 1, Vw |-> 1, Temp |-> 0, RH |-> 50, P_stat |-> 900],
     vacuum  |-> [Uw |-> 2, Vw |-> 5, Temp |-> 20, RH |-> 50, P_stat |-> 0]]
TailKinds2 == {"calm", "breeze", "gale"}
Windows == {0, 1, 2}

SampleOf(kind, i) ==
    [c \in {"Time", "Uw", "Vw", "Temp", "RH", "P_stat"} |->
        IF c = "Time" THEN Num(10 * MsPerHour + (i - 1) * MsPerSecond)
        ELSE Num(Halves(SampleKinds[kind][c]))]

SeriesOf(in) ==
    [i \in 1..(in.run + in.tail) |->
        SampleOf(IF i <= in.run THEN in.kind ELSE in.tailkind, i)]

StatsInputs ==
    [kind : DOMAIN SampleKinds, run : RunLengths, tailkind : TailKinds2,
     tail : TailLengths]

StatsInit ==
    /\ stats_in \in StatsInputs
    /\ stats_in.tail = 0 => stats_in.tailkind = "calm"
    /\ raw_weather_df = SeriesOf(stats_in)
    /\ ws_windows \in [wind : Windows, temp : {1, 2}, pressure : {1, 2}, relhumid : {1}]
    /\ console = {}
    /\ weather_stats = <<>>
    /\ stpc = "start"
    /\ sterr = ""
    /\ timing = <<>>
    /\ AimmsIdle /\ TimeIdle /\ SolarIdle /\ WindowIdle /\ SolarStatsIdle /\ MissionIdle /\ FlowIdle

StatsNext == Smooth \/ ComputeWS \/ PrintWarnings \/ WriteWeatherStats \/ PlotAndReturn

SpecStats == StatsInit /\ [][StatsNext]_vars

\* the positions of weather_to_stats at which the warnings have been printed
Evaluated == stpc \in {"printed", "written", "returned"}

\* C11: weather_to_stats does not mutate its input: after it has run the frame
\* handed to it holds the channels and the channel values of the parsed series
C11_InputNotMutated ==
    stpc = "returned" => raw_weather_df = SeriesOf(stats_in)

\* C12: the zero-wind and the high-wind warning are each raised exactly when
\* more than 60 samples qualify (60 samples raise nothing, 61 raise the flag)
C12_WindFlagsAbove60 ==
    Evaluated =>
        /\ ZeroWindWarning \in console <=>
              Cardinality({i \in 1..Len(raw_weather_df) :
                  /\ ~raw_weather_df[i]["Computed_WS"].nan
                  /\ raw_weather_df[i]["Computed_WS"].v = 0}) > 60
        /\ HighWindWarning \in console <=>
              Cardinality({i \in 1..Len(raw_weather_df) :
                  /\ ~raw_weather_df[i]["Computed_WS"].nan
                  /\ raw_weather_df[i]["Computed_WS"].v > 27 * 1000 * 1000}) > 60

\* C13: the zero-pressure warning is raised exactly when more than 60 samples
\* of the smoothed pressure channel are 0, whatever the temperature channel holds
C13_ZeroPressureFromPressure ==
    Evaluated =>
        (ZeroPressureWarning \in console <=>
            Cardinality({i \in 1..Len(raw_weather_df) :
                /\ ~raw_weather_df[i]["P_stat"].nan
                /\ raw_weather_df[i]["P_stat"].v = 0}) > 60)

\* R * R <= hi * 10^8, for 0 <= R < 2 * 10^8, in pieces that stay small
SquareAtMost(R, hi) ==
    LET A == R \div 10000
        B == R % 10000
        u == (2 * A * B) \div 10000
        v == (2 * A * B) % 10000
        low == v * 10000 + B * B
        top == A * A + u + low \div (10000 * 10000)
    IN  top < hi \/ (top = hi /\ low % (10000 * 10000) = 0)

\* C14: Computed_WS is sqrt(Uw^2 + Vw^2) to the nearest millionth, is never
\* negative, and is 5.0 for the components (3, 4)
C14_WindSpeed ==
    stpc \in {"computed", "printed", "written", "returned"} =>
        \A i \in 1..Len(raw_weather_df) :
            LET x == raw_weather_df[i]["Uw"]
                y == raw_weather_df[i]["Vw"]
                r == raw_weather_df[i]["Computed_WS"]
                sq == (x.v * x.v + y.v * y.v) * 10000  \* (Uw^2 + Vw^2) * 4 * 10^4
            IN  IF x.nan \/ y.nan THEN r.nan
                ELSE /\ ~r.nan
                     /\ r.v >= 0
                     /\ r.v = 0 \/ SquareAtMost(2 * r.v - 1, sq)
                     /\ ~SquareAtMost(2 * r.v + 1, sq)
                     /\ (x.v = 6 /\ y.v = 8) => r.v = 5 * 1000 * 1000

\* C14 witness: the smoothed components (3, 4) gave 5.0 and the two-sample mean
\* of (3, 4) and (18, -24), which is (10.5, -10), gave 14.5
C14_Witness ==
    /\ stpc = "returned"
    /\ \E i \in 1..Len(raw_weather_df) :
          /\ raw_weather_df[i]["Uw"] = Num(6) /\ raw_weather_df[i]["Vw"] = Num(8)
          /\ raw_weather_df[i]["Computed_WS"] = Num(5000000)
    /\ \E i \in 1..Len(raw_weather_df) :
          /\ raw_weather_df[i]["Uw"] = Num(21) /\ raw_weather_df[i]["Vw"] = Num(-20)
          /\ raw_weather_df[i]["Computed_WS"] = Num(14500000)

(***************************************************************************)
(* solar_to_stats (utils/solar_stats.py lines 22-220), from the frame      *)
(* solar_to_df returned: SpecSolarStats.                                   *)
(*                                                                         *)
(* LocalTime is a time of day on 1900-01-01 in milliseconds (the format    *)
(* "%H:%M:%S" leaves whole seconds); MicroMoles is a record [nan, v] with  *)
(* v in hundredths.                                                        *)
(***************************************************************************)
MsPerDay == 24 * MsPerHour

\* round(seconds, 1), on milliseconds (half to even)
RoundTenths(ms) ==
    LET q == ms \div 100
        r == ms % 100
    IN  IF r > 50 \/ (r = 50 /\ q % 2 = 1) THEN (q + 1) * 100 ELSE q * 100

\* (timestamp - pd.Timedelta(hours=utc_offset)).time(), lines 85-86
UtcTimeOfDay(local, utc_offset) == (local - utc_offset * MsPerHour) % MsPerDay

\* the three record counts compared with 30 at lines 150-158
AtLeast30_ManyRecords(n) == n >= 30
ManyRecords(n) == n > 30

\* time_difference >= pd.Timedelta(minutes=10), lines 116 and 147
Absolute_TimingDiscrepancy(duration, duration_from_length) ==
    \/ duration - duration_from_length >= 10 * MsPerMinute
    \/ duration_from_length - duration >= 10 * MsPerMinute
TimingDiscrepancy(duration, duration_from_length) ==
    duration - duration_from_length >= 10 * MsPerMinute

TimingWarning == "discrepancy between record count and start/stop times"
ZeroIrradianceWarning == "Potential data recording error for records"
LowIrradianceWarning == "Low solar irradiance detected"
HighIrradianceWarning == "High solar irradiance detected"
LateStartWarning == "Solar data may start after lidar collection began."
EarlyEndWarning == "Solar data may end before lidar collection ends."

NoTime == [given |-> FALSE, ms |-> 0]
NoLocals ==
    [utc_start_time |-> 0, utc_end_time |-> 0, sample_rate |-> NoRate, length |-> 0,
     duration |-> 0, duration_from_length |-> 0, smoothing_rate |-> 0,
     start_time_warning |-> FALSE, end_time_warning |-> FALSE,
     time_difference |-> 0, zero_value_records |-> 0, low_value_records |-> 0,
     high_value_records |-> 0, max_photon_flux |-> NaN, min_photon_flux |-> NaN,
     at |-> ""]

\* round(x, 1), on hundredths (half to even)
Round1(h) ==
    LET q == h \div 10
        r == h % 10
    IN  IF r > 5 \/ (r = 5 /\ q % 2 = 1) THEN (q + 1) * 10 ELSE q * 10

\* round(Series.max(), 1) and round(Series.min(), 1): NaN is skipped, and is the
\* result when nothing else is there (lines 78 and 79)
ColumnMax(col) ==
    LET defined == {col[i].v : i \in {j \in 1..Len(col) : ~col[j].nan}}
    IN  IF defined = {} THEN NaN
        ELSE Num(Round1(CHOOSE x \in defined : \A y \in defined : y <= x))
ColumnMin(col) ==
    LET defined == {col[i].v : i \in {j \in 1..Len(col) : ~col[j].nan}}
    IN  IF defined = {} THEN NaN
        ELSE Num(Round1(CHOOSE x \in defined : \A y \in defined : x <= y))

\* the comparisons of lines 119, 123 and 127, on hundredths; a NaN compares false
IsZeroValue(x) == ~x.nan /\ x.v = 0
Positive_IsLowValue(x) == ~x.nan /\ x.v > 0 /\ x.v <= 300 * 100
IsLowValue(x) == ~x.nan /\ x.v <= 300 * 100
IsHighValue(x) == ~x.nan /\ x.v >= 1500 * 100

\* lines 147-158 (and again 183-194)
CountWarnings(l) ==
    {w \in {TimingWarning} : TimingDiscrepancy(l.duration, l.duration_from_length)}
    \cup {w \in {ZeroIrradianceWarning} : ManyRecords(l.zero_value_records)}
    \cup {w \in {LowIrradianceWarning} : ManyRecords(l.low_value_records)}
    \cup {w \in {HighIrradianceWarning} : ManyRecords(l.high_value_records)}

\* lines 76-95: the descriptive statistics of the column as it was read, then the
\* first and last time stamp (iloc[0] of an empty column raises), the sample
\* rate and the two durations; the duration implied by the record
\* count is NaT when the sample rate is, which line 98 then refuses
ReadTimes ==
    /\ sspc = "start"
    /\ IF solar_df = <<>>
       THEN /\ sspc' = "raised" /\ sserr' = "IndexError"
            /\ ss' = [ss EXCEPT !.at = "times"]
       ELSE LET col == [i \in 1..Len(solar_df) |-> solar_df[i].LocalTime]
                rate == Median(Diff(col))
            IN  /\ ss' = [ss EXCEPT
                         !.max_photon_flux = ColumnMax(Column(solar_df, "MicroMoles")),
                         !.min_photon_flux = ColumnMin(Column(solar_df, "MicroMoles")),
                         !.utc_start_time = UtcTimeOfDay(col[1], ss_args.utc_offset),
                         !.utc_end_time = UtcTimeOfDay(col[Len(col)], ss_args.utc_offset),
                         !.sample_rate = rate,
                         !.length = Len(col),
                         !.duration = col[Len(col)] - col[1],
                         !.duration_from_length =
                             IF rate.nat THEN 0
                             ELSE RoundTenths((Len(col) * rate.ms2) \div 2)]
                /\ sspc' = "timed"
                /\ UNCHANGED sserr
    /\ UNCHANGED <<sstats_in, solar_df, ss_args, ss_console, output_stats>>
    /\ UNCHANGED <<flow_vars, aimms_vars, time_vars, solar_vars, window_vars, stats_vars, mission_vars>>

\* lines 98-101
SmoothSolar ==
    /\ sspc = "timed"
    /\ IF ss.sample_rate.nat
       THEN /\ sspc' = "raised" /\ sserr' = "ValueError"           \* int(nan)
            /\ ss' = [ss EXCEPT !.at = "smoothing"]
            /\ UNCHANGED solar_df
       ELSE IF ss.sample_rate.ms2 = 0
       THEN /\ sspc' = "raised" /\ sserr' = "ZeroDivisionError"
            /\ ss' = [ss EXCEPT !.at = "smoothing"]
            /\ UNCHANGED solar_df
       ELSE LET q == IntOfQuotient(ss_args.smoothing, ss.sample_rate)
                smoothing_rate == IF q < 1 THEN 1 ELSE q
            IN  /\ ss' = [ss EXCEPT !.smoothing_rate = smoothing_rate]
                /\ solar_df' = SetColumn(solar_df, "MicroMoles",
                                   Rolling(Column(solar_df, "MicroMoles"), smoothing_rate))
                /\ sspc' = "smoothed"
                /\ UNCHANGED sserr
    /\ UNCHANGED <<sstats_in, ss_args, ss_console, output_stats>>
    /\ UNCHANGED <<flow_vars, aimms_vars, time_vars, solar_vars, window_vars, stats_vars, mission_vars>>

\* lines 105-128: a warning text is bound only when its comparison holds
CheckSolar ==
    /\ sspc = "smoothed"
    /\ ss' = [ss EXCEPT
           !.start_time_warning =
               ss_args.start_time.given /\ ss.utc_start_time > ss_args.start_time.ms,
           !.end_time_warning =
               ss_args.end_time.given /\ ss.utc_end_time < ss_args.end_time.ms,
           !.time_difference = ss.duration - ss.duration_from_length,
           !.zero_value_records =
               Cardinality({i \in 1..Len(solar_df) : IsZeroValue(solar_df[i].MicroMoles)}),
           !.low_value_records =
               Cardinality({i \in 1..Len(solar_df) : IsLowValue(solar_df[i].MicroMoles)}),
           !.high_value_records =
               Cardinality({i \in 1..Len(solar_df) : IsHighValue(solar_df[i].MicroMoles)})]
    /\ sspc' = "checked"
    /\ UNCHANGED <<sstats_in, solar_df, ss_args, ss_console, output_stats, sserr>>
    /\ UNCHANGED <<flow_vars, aimms_vars, time_vars, solar_vars, window_vars, stats_vars, mission_vars>>

\* lines 130-162: the warnings are printed in order; the print of a warning text
\* that was never bound raises UnboundLocalError, after the prints before it
PrintSolar ==
    /\ sspc = "checked"
    /\ IF ss_args.start_time.given /\ ~ss.start_time_warning
       THEN /\ ss_console' = CountWarnings(ss)
            /\ sspc' = "raised" /\ sserr' = "UnboundLocalError"
            /\ ss' = [ss EXCEPT !.at = "warnings"]
       ELSE IF ss_args.end_time.given /\ ~ss.end_time_warning
       THEN /\ ss_console' = CountWarnings(ss)
                   \cup {w \in {LateStartWarning} : ss_args.start_time.given}
            /\ sspc' = "raised" /\ sserr' = "UnboundLocalError"
            /\ ss' = [ss EXCEPT !.at = "warnings"]
       ELSE /\ ss_console' = CountWarnings(ss)
                   \cup {w \in {LateStartWarning} : ss_args.start_time.given}
                   \cup {w \in {EarlyEndWarning} : ss_args.end_time.given}
            /\ sspc' = "printed"
            /\ UNCHANGED <<ss, sserr>>
    /\ UNCHANGED <<sstats_in, solar_df, ss_args, output_stats>>
    /\ UNCHANGED <<flow_vars, aimms_vars, time_vars, solar_vars, window_vars, stats_vars, mission_vars>>

\* lines 164-198: the same warnings go to the report; this point is reached only
\* when both texts printed at lines 159-162 were bound
WriteSolarStats ==
    /\ sspc = "printed"
    /\ output_stats' =
           <<CountWarnings(ss)
               \cup {w \in {LateStartWarning} : ss_args.start_time.given}
               \cup {w \in {EarlyEndWarning} : ss_args.end_time.given}>>
    /\ sspc' = "written"
    /\ UNCHANGED <<sstats_in, solar_df, ss_args, ss, ss_console, sserr>>
    /\ UNCHANGED <<flow_vars, aimms_vars, time_vars, solar_vars, window_vars, stats_vars, mission_vars>>

\* lines 200-220
PlotSolarAndReturn ==
    /\ sspc = "written"
    /\ sspc' = "returned"
    /\ UNCHANGED <<sstats_in, solar_df, ss_args, ss, ss_console, output_stats, sserr>>
    /\ UNCHANGED <<flow_vars, aimms_vars, time_vars, solar_vars, window_vars, stats_vars, mission_vars>>

\* the enumerated solar series: a run of equal readings at a fixed step, then,
\* after a gap, a short tail of bright readings at the same step
MaxRecords == 32
Irradiances == {0, 30000, 30020, 91400, 149980, 150000}
SolarRuns == (0..3) \cup (30..MaxRecords)
SolarSteps == {0, MsPerSecond, 2 * MsPerSecond, 10 * MsPerMinute}
SolarGaps == {0, 600 * MsPerSecond, 601 * MsPerSecond, 602 * MsPerSecond}
SurveyTimes ==
    {NoTime} \cup
    {[given |-> TRUE, ms |-> t] :
        t \in {3 * MsPerHour, 17 * MsPerHour, 17 * MsPerHour + 500,
               17 * MsPerHour + 30 * MsPerSecond, 18 * MsPerHour}}

SolarStatsInputs ==
    [value : Irradiances, run : SolarRuns, step : SolarSteps, gap : SolarGaps,
     tail : {0, 2}, first : {10 * MsPerHour}]

LocalTimeOf(in, i) ==
    in.first + (i - 1) * in.step + (IF i > in.run /\ in.run > 0 THEN in.gap ELSE 0)

SolarSeriesOf(in) ==
    [i \in 1..(in.run + in.tail) |->
        [LocalTime |-> LocalTimeOf(in, i),
         MicroMoles |-> Num(IF i <= in.run THEN in.value ELSE 91400)]]

SolarStatsInit ==
    /\ sstats_in \in SolarStatsInputs
    /\ sstats_in.tail = 0 => sstats_in.gap = 0
    /\ sstats_in.run >= 30 => sstats_in.step = MsPerSecond /\ sstats_in.gap = 0
    /\ sstats_in.run < 30 => sstats_in.value = 91400
    /\ solar_df = SolarSeriesOf(sstats_in)
    /\ ss_args \in [utc_offset : {-7, 7}, start_time : SurveyTimes,
                    end_time : SurveyTimes, smoothing : {1, 2, 20}]
    /\ (sstats_in.value # 91400 \/ sstats_in.tail # 0 \/ ss_args.smoothing # 1) =>
           /\ ss_args.utc_offset = -7
           /\ ss_args.start_time = NoTime /\ ss_args.end_time = NoTime
    /\ ss = NoLocals
    /\ ss_console = {}
    /\ output_stats = <<>>
    /\ sspc = "start"
    /\ sserr = ""
    /\ AimmsIdle /\ TimeIdle /\ SolarIdle /\ WindowIdle /\ StatsIdle /\ MissionIdle /\ FlowIdle

SolarStatsNext ==
    ReadTimes \/ SmoothSolar \/ CheckSolar \/ PrintSolar \/ WriteSolarStats
        \/ PlotSolarAndReturn

SpecSolarStats == SolarStatsInit /\ [][SolarStatsNext]_vars

\* the positions of solar_to_stats at which lines 147-158 have printed
SolarEvaluated ==
    \/ sspc \in {"printed", "written", "returned"}
    \/ sspc = "raised" /\ ss.at = "warnings"

\* C15: the zero, low and high irradiance warnings are each raised exactly when
\* more than 30 records of the series are 0, <= 300 and >= 1500; 30 records
\* raise nothing and a series of 914.0 throughout raises none of the three
C15_IrradianceFlags ==
    SolarEvaluated =>
        /\ ZeroIrradianceWarning \in ss_console <=>
              Cardinality({i \in 1..Len(solar_df) :
                  solar_df[i].MicroMoles = [nan |-> FALSE, v |-> 0]}) > 30
        /\ LowIrradianceWarning \in ss_console <=>
              Cardinality({i \in 1..Len(solar_df) :
                  ~solar_df[i].MicroMoles.nan /\ solar_df[i].MicroMoles.v <= 30000}) > 30
        /\ HighIrradianceWarning \in ss_console <=>
              Cardinality({i \in 1..Len(solar_df) :
                  ~solar_df[i].MicroMoles.nan /\ solar_df[i].MicroMoles.v >= 150000}) > 30
        /\ ss.smoothing_rate = 1 =>
              /\ ZeroIrradianceWarning \in ss_console <=>
                    (sstats_in.value = 0 /\ sstats_in.run > 30)
              /\ LowIrradianceWarning \in ss_console <=>
                    (sstats_in.value <= 30000 /\ sstats_in.run > 30)
              /\ HighIrradianceWarning \in ss_console <=>
                    (sstats_in.value >= 150000 /\ sstats_in.run > 30)
        /\ sstats_in.value = 91400 =>
              ss_console \cap {ZeroIrradianceWarning, LowIrradianceWarning,
                               HighIrradianceWarning} = {}

\* C15 witness: 31 unsmoothed records of 0 raised the zero and the low warning
\* and not the high one
C15_Witness ==
    /\ sspc = "returned"
    /\ sstats_in.value = 0 /\ sstats_in.run = 31 /\ sstats_in.tail = 0
    /\ ss.smoothing_rate = 1
    /\ ss_console = {ZeroIrradianceWarning, LowIrradianceWarning}
    /\ output_stats = <<{ZeroIrradianceWarning, LowIrradianceWarning}>>

\* C16: the timing warning is raised exactly when the duration implied by the
\* record count and the wall-clock duration differ by 10 minutes or more,
\* whichever of the two is the larger
C16_TimingEitherWay ==
    SolarEvaluated =>
        LET wall == solar_df[Len(solar_df)].LocalTime - solar_df[1].LocalTime
            implied == (Len(solar_df) * ss.sample_rate.ms2) \div 2
        IN  TimingWarning \in ss_console <=>
                (wall - implied >= 600000 \/ implied - wall >= 600000)

\* C16 as amended: the timing warning is raised exactly when the wall-clock
\* duration exceeds the duration implied by the record count by 10 minutes or more
C16_TimingFewerRecords ==
    SolarEvaluated =>
        LET wall == solar_df[Len(solar_df)].LocalTime - solar_df[1].LocalTime
            implied == (Len(solar_df) * ss.sample_rate.ms2) \div 2
        IN  TimingWarning \in ss_console <=> wall - implied >= 600000

\* C16 witness: four records one second apart with 601 more seconds between
\* the second and the third gave 604 s against 4 s, 10 minutes apart, and the
\* warning; the report carries it
C16_Witness ==
    /\ sspc = "returned"
    /\ sstats_in.run = 2 /\ sstats_in.tail = 2 /\ sstats_in.step = 1000
    /\ sstats_in.gap = 601000
    /\ ss.duration = 604000 /\ ss.duration_from_length = 4000
    /\ TimingWarning \in ss_console /\ output_stats = <<{TimingWarning}>>

\* C17: the evaluation of the anomaly rules never aborts a run, whatever the
\* series and the survey start and end supplied
C17_AnomaliesNeverAbort ==
    ~(sspc = "raised" /\ ss.at = "warnings")

\* C18: with a survey start (end) supplied, the late-start warning is raised
\* exactly when the probe's UTC start is later than the survey start, and the
\* early-end warning exactly when its UTC end is earlier than the survey end
C18_LateStartEarlyEnd ==
    SolarEvaluated =>
        LET first == solar_df[1].LocalTime
            last == solar_df[Len(solar_df)].LocalTime
            shift == ss_args.utc_offset * 3600000
        IN  /\ ss_args.start_time.given =>
                  (LateStartWarning \in ss_console <=>
                      (first - shift) % 86400000 > ss_args.start_time.ms)
            /\ ss_args.end_time.given =>
                  (EarlyEndWarning \in ss_console <=>
                      (last - shift) % 86400000 < ss_args.end_time.ms)
            /\ ~ss_args.start_time.given => LateStartWarning \notin ss_console
            /\ ~ss_args.end_time.given => EarlyEndWarning \notin ss_console

(***************************************************************************)
(* The end of check_weather_data (weather_qc.py lines 337-391), from the   *)
(* return of weather_to_stats: SpecMission.  solar_to_stats is called from *)
(* here and runs as modelled above.                                        *)
(*                                                                         *)
(* get_times_from_mission_csv (utils/read_lidar_timestamp_source) returns  *)
(* the survey start and end as strings HH:MM:SS.ffffff; they are held as   *)
(* times of day in milliseconds.                                           *)
(***************************************************************************)
StartCoverageWarning == "Might be missing AIMMS coverage at the start of the mission!"
EndCoverageWarning == "Might be missing AIMMS coverage at the end of the mission!"

\* the same without the isfile test
Truthy_MissionPresent(path) == path \notin {"None", ""}

\* mission_csv and isfile(mission_csv), line 337
MissionPresent(path) == path \notin {"None", ""} /\ path = "file"

\* get_times_from_mission_csv(mission_csv), line 338
get_times_from_mission_csv(held) ==
    [start_time |-> [given |-> TRUE, ms |-> held.start],
     end_time |-> [given |-> TRUE, ms |-> held.end]]

\* str() of a datetime.time shows the fraction only when it is not zero, and
\* datetime.strptime(text, '%H:%M:%S') accepts no fraction: lines 340 and 343
ParsesAsHMS(t) == t % MsPerSecond = 0

\* lines 366-371
CoverageWarnings(lidar_start, lidar_end, utc_start, utc_end) ==
    {w \in {StartCoverageWarning} : lidar_start < utc_start}
    \cup {w \in {EndCoverageWarning} : lidar_end > utc_end}

\* lines 337-371 with a mission file: the four times are parsed, the comparison
\* is printed and appended to the report
Reconcile ==
    /\ mpc = "stats_done"
    /\ MissionPresent(mission_csv)
    /\ IF ~ParsesAsHMS(probe.utc_start_time) \/ ~ParsesAsHMS(probe.utc_end_time)
       THEN /\ mpc' = "raised" /\ merr' = "ValueError"
            /\ UNCHANGED <<console, weather_stats>>
       ELSE LET flags == CoverageWarnings(lidar.start, lidar.end,
                                          probe.utc_start_time, probe.utc_end_time)
            IN  /\ console' = console \cup flags
                /\ weather_stats' = <<weather_stats[1] \cup flags>>
                /\ mpc' = "reconciled"
                /\ UNCHANGED merr
    /\ UNCHANGED <<mission_in, mission_csv, lidar, probe, solar>>
    /\ UNCHANGED <<stats_in, raw_weather_df, ws_windows, stpc, sterr, timing>>
    /\ UNCHANGED <<flow_vars, aimms_vars, time_vars, solar_vars, window_vars, sstats_vars>>

\* lines 377-384: solar_to_stats is called with the survey start and end
CallSolarWithSurvey ==
    /\ mpc = "reconciled"
    /\ IF solar = "None"
       THEN mpc' = "done" /\ UNCHANGED <<ss_args, sspc>>
       ELSE /\ ss_args' = [utc_offset |-> mission_in.utc_offset,
                           start_time |-> get_times_from_mission_csv(lidar).start_time,
                           end_time |-> get_times_from_mission_csv(lidar).end_time,
                           smoothing |-> mission_in.solar_smoothing]
            /\ sspc' = "start"
            /\ mpc' = "solar"
    /\ UNCHANGED <<mission_in, mission_csv, lidar, probe, solar, merr>>
    /\ UNCHANGED <<sstats_in, solar_df, ss, ss_console, output_stats, sserr>>
    /\ UNCHANGED <<flow_vars, aimms_vars, time_vars, solar_vars, window_vars, stats_vars>>

\* lines 337 and 385-391, without a mission file: nothing is compared and
\* solar_to_stats is called without a survey start and end
SkipReconcile ==
    /\ mpc = "stats_done"
    /\ ~MissionPresent(mission_csv)
    /\ IF solar = "None"
       THEN mpc' = "done" /\ UNCHANGED <<ss_args, sspc>>
       ELSE /\ ss_args' = [utc_offset |-> mission_in.utc_offset,
                           start_time |-> NoTime, end_time |-> NoTime,
                           smoothing |-> mission_in.solar_smoothing]
            /\ sspc' = "start"
            /\ mpc' = "solar"
    /\ UNCHANGED <<mission_in, mission_csv, lidar, probe, solar, merr>>
    /\ UNCHANGED <<sstats_in, solar_df, ss, ss_console, output_stats, sserr>>
    /\ UNCHANGED <<flow_vars, aimms_vars, time_vars, solar_vars, window_vars, stats_vars>>

\* solar_to_stats comes back to lines 378 / 387: its return ends
\* check_weather_data, its exception passes through
SolarCallEnds ==
    /\ mpc = "solar"
    /\ sspc \in {"returned", "raised"}
    /\ IF sspc = "raised"
       THEN mpc' = "raised" /\ merr' = sserr
       ELSE mpc' = "done" /\ UNCHANGED merr
    /\ UNCHANGED <<mission_in, mission_csv, lidar, probe, solar>>
    /\ UNCHANGED <<flow_vars, aimms_vars, time_vars, solar_vars, window_vars, stats_vars, sstats_vars>>

\* the enumerated runs: the times weather_to_stats returned for the probe, the
\* survey window, and the days both were flown on (which no code reads)
ProbeStarts == {10 * MsPerHour, 10 * MsPerHour + 400}
ProbeEnds == {11 * MsPerHour, 11 * MsPerHour + 400}
LidarStarts == {10 * MsPerHour - 500, 10 * MsPerHour, 10 * MsPerHour + 400,
                10 * MsPerHour + 500}
LidarEnds == {11 * MsPerHour - 500, 11 * MsPerHour, 11 * MsPerHour + 400,
              11 * MsPerHour + 500}
MissionPaths == {"None", "", "missing", "file"}

MissionInit ==
    /\ mission_in \in [probe_day : {1, 2}, lidar_day : {1, 2}, utc_offset : {-7},
                       solar_smoothing : {1}]
    /\ mission_csv \in MissionPaths
    /\ lidar \in [start : LidarStarts, end : LidarEnds]
    /\ probe \in [utc_start_time : ProbeStarts, utc_end_time : ProbeEnds]
    /\ solar \in {"None", "file"}
    /\ mpc = "stats_done"
    /\ merr = ""
    /\ stats_in = <<>> /\ raw_weather_df = <<>> /\ ws_windows = <<>>
    /\ console = {} /\ weather_stats = <<{}>> /\ stpc = "returned" /\ sterr = ""
    /\ timing = <<>>
    /\ sstats_in = [value |-> 91400, run |-> 3, step |-> MsPerSecond, gap |-> 0,
                    tail |-> 0, first |-> 3 * MsPerHour]
    /\ solar_df = SolarSeriesOf(sstats_in)
    /\ ss_args = <<>> /\ ss = NoLocals /\ ss_console = {} /\ output_stats = <<>>
    /\ sspc = "idle" /\ sserr = ""
    /\ AimmsIdle /\ TimeIdle /\ SolarIdle /\ WindowIdle /\ FlowIdle

MissionNext ==
    \/ Reconcile \/ CallSolarWithSurvey \/ SkipReconcile \/ SolarCallEnds
    \/ SolarStatsNext

SpecMission == MissionInit /\ [][MissionNext]_vars

\* the positions of check_weather_data past the comparison of lines 337-371
Reconciled == mpc \in {"reconciled", "solar", "done", "raised"}

\* C19: with a mission window present, the start-coverage warning is raised
\* exactly when the mission start time of day is earlier than the probe's start
\* time of day, and the end-coverage warning exactly when the mission end time
\* of day is later than the probe's end time of day, whatever the days
C19_CoverageGaps ==
    (mission_csv = "file" /\ Reconciled) =>
        /\ StartCoverageWarning \in weather_stats[1] <=>
              lidar.start < probe.utc_start_time
        /\ EndCoverageWarning \in weather_stats[1] <=>
              lidar.end > probe.utc_end_time

\* C20: without a mission file the comparison is skipped without error: no
\* coverage warning is raised, a supplied solar file is processed without a
\* survey start and end, and the run ends normally
C20_SkippedWithoutMission ==
    mission_csv \in {"None", "", "missing"} =>
        /\ mpc # "raised"
        /\ weather_stats = <<{}>> /\ console = {}
        /\ sspc # "idle" =>
              /\ solar = "file"
              /\ ~ss_args.start_time.given /\ ~ss_args.end_time.given
        /\ mpc = "done" => (solar = "file" <=> sspc = "returned")
        /\ mpc = "done" => (solar = "file" <=> output_stats # <<>>)

\* C20 witness: with a path that is no file and a solar file, the run ended with
\* the solar report written and the probe report left without coverage warnings
C20_Witness ==
    /\ mission_csv = "missing" /\ solar = "file"
    /\ mpc = "done" /\ sspc = "returned"
    /\ ss_args.start_time = NoTime /\ ss_args.end_time = NoTime
    /\ weather_stats = <<{}>> /\ output_stats = <<{}>>
    /\ lidar.start < probe.utc_start_time

\* C28: the comparison of the mission window with the probe's first and last
\* record completes without an error for every probe start and end, times with
\* a non-zero fraction of a second included
C28_ReconcileNeverRaises ==
    mission_csv = "file" => ~(mpc = "raised" /\ merr = "ValueError")

\* C21: no report file exists before the run's computation is complete: a run
\* that ended with an error at the time-window comparison or in the solar
\* pipeline has left neither the probe report nor the solar report
C21_NoOutputOnFailure ==
    mpc = "raised" => weather_stats = <<>> /\ output_stats = <<>>

\* C30: in every solar report the zero-irradiance warning comes with the
\* low-irradiance warning, and the number of records counted as low is at least
\* the number counted as zero
C30_ZeroImpliesLow ==
    /\ sspc \in {"checked", "printed", "written", "returned"} =>
          ss.low_value_records >= ss.zero_value_records
    /\ SolarEvaluated =>
          (ZeroIrradianceWarning \in ss_console => LowIrradianceWarning \in ss_console)
    /\ output_stats # <<>> =>
          (ZeroIrradianceWarning \in output_stats[1] =>
              LowIrradianceWarning \in output_stats[1])

\* C30 witness: a report was written for 32 records of 0 followed by two bright
\* ones: 34 records, 32 counted as zero and as low, both warnings in the report
C30_Witness ==
    /\ sspc = "returned"
    /\ sstats_in.value = 0 /\ sstats_in.run = 32 /\ sstats_in.tail = 2
    /\ ss.smoothing_rate = 1
    /\ ss.zero_value_records = 32 /\ ss.low_value_records = 32
    /\ {ZeroIrradianceWarning, LowIrradianceWarning} \subseteq output_stats[1]

\* C24: the descriptive statistics of the solar channel are those of the
\* smoothed series: once the channel is smoothed, the reported maximum and
\* minimum are the maximum and minimum of the smoothed column
C24_StatsFromSmoothed ==
    sspc \in {"smoothed", "checked", "printed", "written", "returned"} =>
        /\ ss.max_photon_flux = ColumnMax(Column(solar_df, "MicroMoles"))
        /\ ss.min_photon_flux = ColumnMin(Column(solar_df, "MicroMoles"))

\* C26: aimms_to_df called with a format that is none of geo1_old, geo1_new and
\* nv5 ends with a fatal exit and no records, whatever the file holds; a format
\* taken from the header by detection never ends this way
C26_UnknownFormatIsFatal ==
    /\ (given \notin {"None", "geo1_old", "geo1_new", "nv5"}
            /\ apc \in {"returned", "raised"}) =>
          apc = "raised" /\ aerr = "SystemExit" /\ aimms_df = <<>>
    /\ given = "None" => aerr # "SystemExit"
    /\ (given = "None" /\ apc \in {"read", "returned"}) =>
          format \in {"geo1_old", "geo1_new", "nv5"}

\* C26 witness: a headerless file with records, read as "rad", ended with the
\* fatal exit
C26_Witness ==
    /\ given = "rad" /\ hdr.layout = "headerless" /\ hdr.nrows = MaxRows
    /\ apc = "raised" /\ aerr = "SystemExit" /\ aimms_df = <<>>

\* C27: a channel of n samples smoothed with a window w >= 1 has no defined
\* value at its first w-1 positions and, at every later position, the
\* unweighted mean of the w input samples of that channel ending there; with
\* w = 1 the output is the input
C27_RollingMean ==
    stpc \in {"smoothed", "computed", "printed", "written", "returned"} =>
        \A c \in {"Uw", "Vw", "Temp", "RH", "P_stat"} :
            LET w == CASE c \in {"Uw", "Vw"} -> ws_windows.wind
                       [] c = "Temp" -> ws_windows.temp
                       [] c = "RH" -> ws_windows.relhumid
                       [] c = "P_stat" -> ws_windows.pressure
                in == SeriesOf(stats_in)
                RECURSIVE Total(_, _)
                Total(from, to) ==
                    IF from > to THEN 0 ELSE in[from][c].v + Total(from + 1, to)
            IN  w >= 1 =>
                  /\ Len(raw_weather_df) = Len(in)
                  /\ \A i \in 1..Len(in) :
                        IF i < w THEN raw_weather_df[i][c].nan
                        ELSE /\ ~raw_weather_df[i][c].nan
                             /\ raw_weather_df[i][c].v * w = Total(i - w + 1, i)
                  /\ w = 1 => \A i \in 1..Len(in) : raw_weather_df[i][c] = in[i][c]

\* C27 witness: 60 samples of a breeze followed by two of a gale, the wind
\* smoothed over two samples and the temperature over one: Uw has no value at
\* the first position, 3.0 at the second, 10.5 at the change and 18.0 after
C27_Witness ==
    /\ stpc = "smoothed"
    /\ stats_in = [kind |-> "breeze", run |-> 60, tailkind |-> "gale", tail |-> 2]
    /\ ws_windows.wind = 2 /\ ws_windows.temp = 1
    /\ raw_weather_df[1]["Uw"].nan
    /\ raw_weather_df[2]["Uw"] = Num(Halves(3))
    /\ raw_weather_df[61]["Uw"] = Num(21)
    /\ raw_weather_df[62]["Uw"] = Num(Halves(18))
    /\ raw_weather_df[1]["Temp"] = SeriesOf(stats_in)[1]["Temp"]

(***************************************************************************)
(* A whole run of check_weather_data (weather_qc.py lines 289-335) on an   *)
(* extracted nv5 file without a header: SpecEndToEnd.  aimms_to_df is      *)
(* called without a format (line 311), the sample rate and the windows are *)
(* taken as in SpecWindow and weather_to_stats runs as in SpecStats.       *)
(*                                                                         *)
(* The records of the file are held as the samples of SeriesOf: one second *)
(* apart from 10 h, with the decimal hour of a record in milliseconds.     *)
(***************************************************************************)
RecordsInHour == 60 * 60

\* aimms_to_df lines 142-156 on a file whose every line is a record of the
\* width of the nv5 names: read_csv skips the first SkipNv5 lines, the Time
\* column goes through decimal_hours_to_hh_mm_ss and to_datetime
ReadHeaderless(rows) ==
    [i \in 1..Max(0, Len(rows) - SkipNv5) |->
        [rows[i + SkipNv5] EXCEPT !["Time"] =
            Num(ToDatetime(decimal_hours_to_hh_mm_ss(rows[i + SkipNv5]["Time"].v)))]]

\* lines 311-319: the file is read (its second line decides the format: a
\* record line carries no signature, so nv5), the kml is written, and the Time
\* column is handed to the sample-rate estimate
ReadProbeFile ==
    /\ cpc = "start"
    /\ IF e2e_in.series.run + e2e_in.series.tail < 2
       THEN /\ cpc' = "raised" /\ cerr' = "IndexError"        \* f.readlines()[1]
            /\ UNCHANGED <<raw_weather_df, times, wpc>>
       ELSE /\ raw_weather_df' = ReadHeaderless(SeriesOf(e2e_in.series))
            /\ times' = [i \in 1..Len(raw_weather_df') |-> raw_weather_df'[i]["Time"].v]
            /\ wpc' = "start"
            /\ cpc' = "read"
            /\ UNCHANGED cerr
    /\ UNCHANGED <<e2e_in, extract_vars>>
    /\ UNCHANGED <<pipeline, smoothing, sample_rate, windows, werr>>
    /\ UNCHANGED <<stats_in, ws_windows, console, weather_stats, stpc, sterr, timing>>
    /\ UNCHANGED <<aimms_vars, time_vars, solar_vars, sstats_vars, mission_vars>>

\* lines 324-335: the four windows are the arguments of weather_to_stats; an
\* exception of the window computation ends the run
CallWeatherToStats ==
    /\ cpc = "read"
    /\ wpc \in {"done", "raised"}
    /\ IF wpc = "raised"
       THEN cpc' = "raised" /\ cerr' = werr /\ UNCHANGED <<ws_windows, stpc>>
       ELSE /\ ws_windows' = windows
            /\ stpc' = "start"
            /\ cpc' = "stats"
            /\ UNCHANGED cerr
    /\ UNCHANGED <<e2e_in, extract_vars, window_vars>>
    /\ UNCHANGED <<stats_in, raw_weather_df, console, weather_stats, sterr, timing>>
    /\ UNCHANGED <<aimms_vars, time_vars, solar_vars, sstats_vars, mission_vars>>

\* line 330: weather_to_stats comes back, or its exception passes through
WeatherStatsEnds ==
    /\ cpc = "stats"
    /\ stpc \in {"returned", "raised"}
    /\ IF stpc = "raised"
       THEN cpc' = "raised" /\ cerr' = sterr
       ELSE cpc' = "done" /\ UNCHANGED cerr
    /\ UNCHANGED <<e2e_in, extract_vars>>
    /\ UNCHANGED <<aimms_vars, time_vars, solar_vars, window_vars, report_vars>>

\* the enumerated runs: a steady series of a few records, of a minute, or of an
\* hour, and the smoothing periods in seconds
FileLengths == {1, 3, 4, 5, 6, 63, RecordsInHour}
EndToEndInputs ==
    [series : [kind : {"calm", "breeze", "gale", "frozen"}, run : FileLengths,
               tailkind : {"calm"}, tail : {0}],
     smoothing : [wind : {1, 2, 20}, temp : {1, 2}, pressure : {1}, relhumid : {1}]]

EndToEndInit ==
    /\ e2e_in \in EndToEndInputs
    /\ e2e_in.series.run = RecordsInHour =>
          e2e_in.series.kind = "breeze" /\ e2e_in.smoothing.temp = 1
    /\ cpc = "start"
    /\ cerr = ""
    /\ pipeline = "weather" /\ times = <<>> /\ smoothing = e2e_in.smoothing
    /\ sample_rate = NoRate /\ windows = <<>> /\ wpc = "idle" /\ werr = ""
    /\ AimmsIdle /\ TimeIdle /\ SolarIdle /\ ReportIdle /\ ExtractIdle

EndToEndNext ==
    \/ ReadProbeFile \/ EstimateSampleRate \/ WeatherWindows
    \/ CallWeatherToStats \/ StatsNext \/ WeatherStatsEnds

SpecEndToEnd == EndToEndInit /\ [][EndToEndNext]_vars

\* C25: a file of 3,600 records one second apart with Uw = 3 and Vw = 4, without
\* a header, gives a wind speed of 5.0 at every sample past the smoothing
\* warm-up, no warning, and a report of 3,600 records lasting exactly one hour
C25_HourOfSteadyWind ==
    (cpc = "done" /\ e2e_in.series.kind = "breeze"
            /\ e2e_in.series.run = RecordsInHour) =>
        /\ console = {} /\ weather_stats = <<{}>>
        /\ \A i \in 1..Len(raw_weather_df) :
              i >= ws_windows.wind => raw_weather_df[i]["Computed_WS"] = Num(5000000)
        /\ timing.length = RecordsInHour
        /\ timing.duration = MsPerHour

(***************************************************************************)
(* extract_aimms (utils/extract_aimms.py lines 7-99) as check_weather_data *)
(* calls it for a .RAW file (weather_qc.py lines 303-311), by one run or   *)
(* by two runs at the same time: SpecExtract.                              *)
(*                                                                         *)
(* Both runs use the one executable directory.  A file is held by what it  *)
(* derives from: the staged copy of the raw file of run r is [of |-> r],   *)
(* an output the executable made of it [of |-> r, size |-> bytes].         *)
(***************************************************************************)
Runs == {1, 2}

\* the names of lines 50, 59 and 68
RecognizedExes == {"ekf560A30.exe", "ekf612A30.exe", "canextr4_ssii.exe"}

\* os.path.basename(aimms_file), line 36
file_name(r) == <<ex_in[r].name, ".RAW">>

\* os.path.splitext(file_name)[0] + "_extract.out", line 40
out_file_name(r) == <<ex_in[r].name, "_extract.out">>

\* lines 81-84: out_dir, or the directory of aimms_file when out_dir is None
out_file_copy(r) ==
    <<IF ex_in[r].out_dir # "None" THEN ex_in[r].out_dir ELSE ex_in[r].dir,
      out_file_name(r)>>

\* a directory with the file put, or replaced, under the name
WithFile(directory, name, content) ==
    [n \in DOMAIN directory \cup {name} |-> IF n = name THEN content ELSE directory[n]]

\* a directory without the name
WithoutFile(directory, name) == [n \in DOMAIN directory \ {name} |-> directory[n]]

\* the same without the test
Unchecked_IsEmptyFile(f) == FALSE

\* os.path.getsize(out_file_copy) == 0, line 96
IsEmptyFile(f) == f.size = 0

\* line 37: shutil.copy(aimms_file, exe_dir)
Stage(r) ==
    /\ runs[r].pc = "start"
    /\ exe_dir' = WithFile(exe_dir, file_name(r), [of |-> r])
    /\ runs' = [runs EXCEPT ![r].pc = "staged"]
    /\ UNCHANGED <<ex_in, out_files>>
    /\ UNCHANGED <<e2e_vars, aimms_vars, time_vars, solar_vars, window_vars, report_vars>>

\* lines 47-76: an executable that is not one of the three ends the call with
\* SystemExit, which 'except Exception' does not catch; else the executable
\* runs in exe_dir on the file staged under file_name and writes what it makes
\* of it under out_file_name.  Its return code is not looked at.  What it does
\* when the staged file is gone is not the program's to say: it writes nothing
\* or writes an empty file.
RunExtractor(r) ==
    /\ runs[r].pc = "staged"
    /\ IF ex_in[r].weather_exe \notin RecognizedExes
       THEN /\ runs' = [runs EXCEPT ![r].pc = "raised", ![r].err = "SystemExit"]
            /\ UNCHANGED exe_dir
       ELSE /\ runs' = [runs EXCEPT ![r].pc = "extracted"]
            /\ \E made \in {"data", "empty", "none"} :
                 /\ IF file_name(r) \in DOMAIN exe_dir
                    THEN made = ex_in[exe_dir[file_name(r)].of].outcome
                    ELSE made \in {"empty", "none"}
                 /\ exe_dir' =
                      IF made = "none" THEN exe_dir
                      ELSE WithFile(exe_dir, out_file_name(r),
                                    [of |-> IF file_name(r) \in DOMAIN exe_dir
                                            THEN exe_dir[file_name(r)].of ELSE 0,
                                     size |-> IF made = "data" THEN 1 ELSE 0])
    /\ UNCHANGED <<ex_in, out_files>>
    /\ UNCHANGED <<e2e_vars, aimms_vars, time_vars, solar_vars, window_vars, report_vars>>

\* lines 80-87: shutil.move of the output to out_file_copy; with no output in
\* exe_dir it raises FileNotFoundError, which is raised again
MoveOutput(r) ==
    /\ runs[r].pc = "extracted"
    /\ IF out_file_name(r) \in DOMAIN exe_dir
       THEN /\ out_files' = WithFile(out_files, out_file_copy(r), exe_dir[out_file_name(r)])
            /\ exe_dir' = WithoutFile(exe_dir, out_file_name(r))
            /\ runs' = [runs EXCEPT ![r].pc = "moved"]
       ELSE /\ runs' = [runs EXCEPT ![r].pc = "raised", ![r].err = "FileNotFoundError"]
            /\ UNCHANGED <<exe_dir, out_files>>
    /\ UNCHANGED ex_in
    /\ UNCHANGED <<e2e_vars, aimms_vars, time_vars, solar_vars, window_vars, report_vars>>

\* lines 90-93: os.remove of the staged copy; its exception is printed only
RemoveStaged(r) ==
    /\ runs[r].pc = "moved"
    /\ exe_dir' = WithoutFile(exe_dir, file_name(r))
    /\ runs' = [runs EXCEPT ![r].pc = "cleaned"]
    /\ UNCHANGED <<ex_in, out_files>>
    /\ UNCHANGED <<e2e_vars, aimms_vars, time_vars, solar_vars, window_vars, report_vars>>

\* lines 96-99: an empty output ends the call with SystemExit, else the path of
\* the output is returned
CheckSize(r) ==
    /\ runs[r].pc = "cleaned"
    /\ IF IsEmptyFile(out_files[out_file_copy(r)])
       THEN runs' = [runs EXCEPT ![r].pc = "raised", ![r].err = "SystemExit"]
       ELSE runs' = [runs EXCEPT ![r].pc = "returned"]
    /\ UNCHANGED <<ex_in, exe_dir, out_files>>
    /\ UNCHANGED <<e2e_vars, aimms_vars, time_vars, solar_vars, window_vars, report_vars>>

\* weather_qc.py line 311: aimms_to_df reads the file extract_aimms returned
ReadExtract(r) ==
    /\ runs[r].pc = "returned"
    /\ runs' = [runs EXCEPT ![r].pc = "parsed",
                            ![r].read = out_files[out_file_copy(r)]]
    /\ UNCHANGED <<ex_in, exe_dir, out_files>>
    /\ UNCHANGED <<e2e_vars, aimms_vars, time_vars, solar_vars, window_vars, report_vars>>

\* the enumerated calls: run 1 on a/F.RAW, run 2 (when there is one) on another
\* file, of the same or another directory and base name
NoFile == [of |-> 0, size |-> 0]
ExtractInputs ==
    {in \in [Runs -> [dir : {"a", "b"}, name : {"F", "G"}, out_dir : {"None", "out"},
                      weather_exe : {"ekf560A30.exe", "ekf999.exe"},
                      outcome : {"data", "empty", "none"}, active : BOOLEAN]] :
        /\ in[1].active /\ in[1].dir = "a" /\ in[1].name = "F"
        /\ <<in[2].dir, in[2].name>> # <<in[1].dir, in[1].name>>
        /\ in[2].out_dir = in[1].out_dir
        /\ ~in[2].active =>
              /\ in[2].dir = "b" /\ in[2].name = "G"
              /\ in[2].weather_exe = "ekf560A30.exe" /\ in[2].outcome = "data"}

ExtractInit ==
    /\ ex_in \in ExtractInputs
    /\ exe_dir = <<>>
    /\ out_files = <<>>
    /\ runs = [r \in Runs |->
                 [pc |-> IF ex_in[r].active THEN "start" ELSE "off",
                  err |-> "", read |-> NoFile]]
    /\ AimmsIdle /\ TimeIdle /\ SolarIdle /\ WindowIdle /\ ReportIdle /\ EndToEndIdle

ExtractNext ==
    \E r \in Runs :
        \/ Stage(r) \/ RunExtractor(r) \/ MoveOutput(r) \/ RemoveStaged(r)
        \/ CheckSize(r) \/ ReadExtract(r)

SpecExtract == ExtractInit /\ [][ExtractNext]_vars

\* the positions at which a run is over
Over(r) == runs[r].pc \in {"raised", "parsed", "off"}

\* what a run makes of its file when no other run is there
Alone(r) ==
    IF ex_in[r].weather_exe \notin RecognizedExes
    THEN [pc |-> "raised", err |-> "SystemExit", read |-> NoFile]
    ELSE CASE ex_in[r].outcome = "none" ->
                 [pc |-> "raised", err |-> "FileNotFoundError", read |-> NoFile]
           [] ex_in[r].outcome = "empty" ->
                 [pc |-> "raised", err |-> "SystemExit", read |-> NoFile]
           [] ex_in[r].outcome = "data" ->
                 [pc |-> "parsed", err |-> "", read |-> [of |-> r, size |-> 1]]

\* C22: when the vendor executable writes an empty output for a run's file, the
\* run ends with a fatal exit and nothing is parsed: extract_aimms does not
\* return and aimms_to_df is never reached (no other run uses the file's name)
C22_EmptyOutputIsFatal ==
    \A r \in Runs :
        (/\ ex_in[r].active /\ ex_in[r].weather_exe \in RecognizedExes
         /\ ex_in[r].outcome = "empty"
         /\ \A q \in Runs \ {r} : ex_in[q].active => ex_in[q].name # ex_in[r].name) =>
            /\ runs[r].pc \notin {"returned", "parsed"}
            /\ runs[r].read = NoFile
            /\ runs[r].pc = "raised" => runs[r].err = "SystemExit"

\* C22 witness: a run by itself, whose executable wrote an empty file, moved it
\* to the directory of the raw file and ended there with the fatal exit
C22_Witness ==
    /\ ~ex_in[2].active
    /\ ex_in[1].weather_exe = "ekf560A30.exe" /\ ex_in[1].outcome = "empty"
    /\ ex_in[1].out_dir = "None"
    /\ DOMAIN out_files = {<<"a", <<"F", "_extract.out">>>>}
    /\ out_files[<<"a", <<"F", "_extract.out">>>>] = [of |-> 1, size |-> 0]
    /\ runs[1] = [pc |-> "raised", err |-> "SystemExit", read |-> NoFile]

\* C23: two runs on different files, interleaved in any way, end as each would
\* alone: the same result or exception, the same file read, and the same
\* output files
C23_RunsIndependent ==
    (ex_in[1].active /\ ex_in[2].active) =>
        /\ \A r \in Runs : Over(r) => runs[r] = Alone(r)
        /\ (Over(1) /\ Over(2)) =>
              \A r \in Runs :
                  IF ex_in[r].weather_exe \in RecognizedExes
                        /\ ex_in[r].outcome \in {"data", "empty"}
                  THEN /\ out_file_copy(r) \in DOMAIN out_files
                       /\ out_files[out_file_copy(r)].of = r
                  ELSE \A q \in Runs :
                          out_file_copy(q) \in DOMAIN out_files =>
                              out_files[out_file_copy(q)].of # r

\* C29: extract_aimms leaves the executable directory as it found it, however
\* it ends: once a call made by itself is over, neither the staged raw file nor
\* the output is in exe_dir
C29_ExeDirLeftClean ==
    (~ex_in[2].active /\ runs[1].pc \in {"raised", "returned", "parsed"}) =>
        DOMAIN exe_dir = {}

====
